---------------------------- MODULE Spec2Model ----------------------------
(***************************************************************************)
(* Iterative ptychographic reconstruction engine of py4DSTEM:              *)
(* PtychographicReconstruction.reconstruct() and the forward, adjoint and  *)
(* constraint operators it calls                                           *)
(* (src/py4DSTEM/process/phase/iterative_ptychography.py).                 *)
(*                                                                         *)
(* Arrays are real-valued: on real arrays conj() is the identity and       *)
(* exp(1j*angle(z)) is the sign of z (angle(0) = 0 gives +1).  Detector    *)
(* and probe arrays have one or two pixels along one axis, so fft2 is the  *)
(* one- or two-point DFT, which maps real arrays to real arrays.           *)
(*                                                                         *)
(* Numbers are decimal floating-point values [m |-> mantissa, e |->        *)
(* exponent] (value m * 10^e) rounded to Digits significant digits after   *)
(* every operation, the way the NumPy build rounds every operation to the  *)
(* significand of its dtype.  inf and nan are values, as in NumPy.         *)
(***************************************************************************)
EXTENDS Integers, Sequences, FiniteSets, TLC

\* --------------------------------------------------------------------------
\* Floating-point arithmetic (NumPy scalar semantics)
\* --------------------------------------------------------------------------

\* significant decimal digits kept by every operation
Digits == 3

Zero == [m |-> 0, e |-> 0]
NaN == [m |-> 0, e |-> 999]
PInf == [m |-> 1, e |-> 999]
NInf == [m |-> -1, e |-> 999]

IsNaN(x) == x = NaN
IsInf(x) == x = PInf \/ x = NInf
IsFinite(x) == x.e # 999

IAbs(n) == IF n < 0 THEN -n ELSE n
ISign(n) == IF n < 0 THEN -1 ELSE 1

\* number of decimal digits of a positive integer below 10^9
NumDigits(n) ==
    IF n < 10 THEN 1
    ELSE IF n < 100 THEN 2
    ELSE IF n < 1000 THEN 3
    ELSE IF n < 10000 THEN 4
    ELSE IF n < 100000 THEN 5
    ELSE IF n < 1000000 THEN 6
    ELSE IF n < 10000000 THEN 7
    ELSE IF n < 100000000 THEN 8
    ELSE 9

RECURSIVE StripZeros(_, _, _)
StripZeros(s, a, e) ==
    IF a % 10 = 0 THEN StripZeros(s, a \div 10, e + 1)
    ELSE [m |-> s * a, e |-> e]

\* round m * 10^e to Digits significant digits (half away from zero)
Norm(m, e) ==
    IF m = 0 THEN Zero
    ELSE LET a == IAbs(m)
             d == NumDigits(a)
             k == IF d > Digits THEN d - Digits ELSE 0
             r == (a + ((10 ^ k) \div 2)) \div (10 ^ k)
         IN  StripZeros(ISign(m), r, e + k)

FromInt(n) == Norm(n, 0)

FNeg(x) ==
    IF IsNaN(x) THEN NaN
    ELSE IF IsInf(x) THEN [m |-> -x.m, e |-> 999]
    ELSE [m |-> -x.m, e |-> x.e]

\* the smaller operand is shifted onto the exponent of the larger one and
\* keeps GuardDigits digits below it
GuardDigits == 8 - Digits

ITrunc(m, k) == ISign(m) * (IAbs(m) \div (10 ^ k))

FAlign(x, y) ==
    \* x.e >= y.e
    LET d == x.e - y.e
    IN  IF d >= 2 * Digits THEN x
        ELSE IF d <= GuardDigits THEN Norm(x.m * (10 ^ d) + y.m, y.e)
        ELSE Norm(x.m * (10 ^ GuardDigits) + ITrunc(y.m, d - GuardDigits),
                  x.e - GuardDigits)

FAdd(x, y) ==
    IF IsNaN(x) \/ IsNaN(y) THEN NaN
    ELSE IF IsInf(x) THEN (IF IsInf(y) /\ y # x THEN NaN ELSE x)
    ELSE IF IsInf(y) THEN y
    ELSE IF x.m = 0 THEN y
    ELSE IF y.m = 0 THEN x
    ELSE IF x.e >= y.e THEN FAlign(x, y)
    ELSE FAlign(y, x)

FSub(x, y) == FAdd(x, FNeg(y))

FMul(x, y) ==
    IF IsNaN(x) \/ IsNaN(y) THEN NaN
    ELSE IF IsInf(x) \/ IsInf(y)
         THEN (IF x.m = 0 \/ y.m = 0 THEN NaN
               ELSE [m |-> ISign(x.m) * ISign(y.m), e |-> 999])
    ELSE Norm(x.m * y.m, x.e + y.e)

\* mantissa padded with zeros to exactly Digits digits
PadM(m) == m * (10 ^ (Digits - NumDigits(IAbs(m))))
PadE(x) == x.e - (Digits - NumDigits(IAbs(x.m)))

FDiv(x, y) ==
    IF IsNaN(x) \/ IsNaN(y) THEN NaN
    ELSE IF IsInf(x)
         THEN (IF IsInf(y) THEN NaN
               ELSE [m |-> ISign(x.m) * ISign(y.m), e |-> 999])
    ELSE IF IsInf(y) THEN Zero
    ELSE IF y.m = 0
         THEN (IF x.m = 0 THEN NaN ELSE [m |-> ISign(x.m), e |-> 999])
    ELSE IF x.m = 0 THEN Zero
    ELSE Norm(ISign(x.m) * ISign(y.m)
                * ((IAbs(PadM(x.m)) * (10 ^ (Digits + 1))) \div IAbs(y.m)),
              PadE(x) - y.e - (Digits + 1))

FAbs(x) ==
    IF IsNaN(x) THEN NaN
    ELSE [m |-> IAbs(x.m), e |-> x.e]

\* x < y; every comparison with nan is false
FLt(x, y) ==
    /\ ~IsNaN(x)
    /\ ~IsNaN(y)
    /\ x # y
    /\ IF IsInf(x) THEN x = NInf
       ELSE IF IsInf(y) THEN y = PInf
       ELSE FSub(x, y).m < 0

\* numpy.minimum / numpy.maximum: nan propagates
FMin(x, y) ==
    IF IsNaN(x) \/ IsNaN(y) THEN NaN ELSE IF FLt(y, x) THEN y ELSE x

FMax(x, y) ==
    IF IsNaN(x) \/ IsNaN(y) THEN NaN ELSE IF FLt(x, y) THEN y ELSE x

RECURSIVE ISqrtSearch(_, _, _)
ISqrtSearch(n, lo, hi) ==
    IF lo >= hi THEN lo
    ELSE LET mid == (lo + hi + 1) \div 2
         IN  IF mid * mid <= n THEN ISqrtSearch(n, mid, hi)
             ELSE ISqrtSearch(n, lo, mid - 1)

\* largest r with r * r <= n, for n < 10^9
ISqrt(n) == ISqrtSearch(n, 0, 31622)

FSqrt(x) ==
    IF IsNaN(x) THEN NaN
    ELSE IF x = PInf THEN PInf
    ELSE IF x.m < 0 THEN NaN
    ELSE IF x.m = 0 THEN Zero
    ELSE LET odd == PadE(x) % 2 = 1
             m1 == IF odd THEN PadM(x.m) * 10 ELSE PadM(x.m)
             e1 == IF odd THEN PadE(x) - 1 ELSE PadE(x)
         IN  Norm(ISqrt(m1 * 10000), (e1 - 4) \div 2)

\* numpy.round: to the nearest integer, halves to the even one
FRound(x) ==
    IF ~IsFinite(x) THEN x
    ELSE IF x.e >= 0 THEN x
    ELSE IF -x.e > Digits THEN Zero
    ELSE LET k == -x.e
             a == IAbs(x.m)
             q == a \div (10 ^ k)
             r == a % (10 ^ k)
             half == (10 ^ k) \div 2
             up == r > half \/ (r = half /\ q % 2 = 1)
         IN  Norm(ISign(x.m) * (IF up THEN q + 1 ELSE q), 0)

\* the Python int of an integer-valued finite float
ToInt(x) == x.m * (10 ^ x.e)

\* exp(1j * angle(z)) of a real z: the sign of z, +1 at zero
PhaseFactor(x) ==
    IF IsNaN(x) THEN NaN
    ELSE IF x.m < 0 THEN FromInt(-1)
    ELSE FromInt(1)

One == FromInt(1)

\* Python None in a slot that otherwise holds a float
PyNone == [none |-> TRUE]

\* Python None in a slot that otherwise holds a non-negative int
None == 0 - 1

\* --------------------------------------------------------------------------
\* Arrays.  A detector-shaped or probe-shaped array is a sequence of numbers;
\* a batch array is a sequence of those, one per measurement of the batch;
\* the object is a sequence of P numbers (object shape (P, 1)).
\* --------------------------------------------------------------------------

RECURSIVE FSum(_)
FSum(xs) == IF xs = <<>> THEN Zero ELSE FAdd(FSum(SubSeq(xs, 1, Len(xs) - 1)), xs[Len(xs)])

RECURSIVE FMaxOf(_)
FMaxOf(xs) ==
    IF Len(xs) = 1 THEN xs[1]
    ELSE FMax(FMaxOf(SubSeq(xs, 1, Len(xs) - 1)), xs[Len(xs)])

RECURSIVE Flatten(_)
Flatten(xss) == IF xss = <<>> THEN <<>> ELSE Head(xss) \o Flatten(Tail(xss))

\* the array a function over 1..n denotes, every element evaluated
AsArray(f) == SubSeq(f, 1, Len(f))

\* Op applied to a value that is computed once
With(v, Op(_)) == Op(v)

Map1(Op(_), xs) == AsArray([k \in 1..Len(xs) |-> Op(xs[k])])
Map2(Op(_, _), xs, ys) == AsArray([k \in 1..Len(xs) |-> Op(xs[k], ys[k])])
Scale(c, xs) == AsArray([k \in 1..Len(xs) |-> FMul(c, xs[k])])

BMap1(Op(_), xss) == AsArray([i \in 1..Len(xss) |-> Map1(Op, xss[i])])
BMap2(Op(_, _), xss, yss) == AsArray([i \in 1..Len(xss) |-> Map2(Op, xss[i], yss[i])])
BScale(c, xss) == AsArray([i \in 1..Len(xss) |-> Scale(c, xss[i])])

FSquare(x) == FMul(x, x)

\* xp.mean over every element of a batch array
BMean(xss) == FDiv(FSum(Flatten(xss)), FromInt(Len(Flatten(xss))))

\* xp.sum(batch, axis=0)
SumAxis0(xss) == AsArray([s \in 1..Len(xss[1]) |-> FSum(AsArray([i \in 1..Len(xss) |-> xss[i][s]]))])

\* xp.fft.fft2 / xp.fft.ifft2 of a real array of one or two pixels
Fft2(x) ==
    IF Len(x) = 1 THEN x
    ELSE <<FAdd(x[1], x[2]), FSub(x[1], x[2])>>

Ifft2(X) ==
    IF Len(X) = 1 THEN X
    ELSE <<FDiv(FAdd(X[1], X[2]), FromInt(2)), FDiv(FSub(X[1], X[2]), FromInt(2))>>

BAdd(xss, yss) == BMap2(FAdd, xss, yss)
BSub(xss, yss) == BMap2(FSub, xss, yss)
BMul(xss, yss) == BMap2(FMul, xss, yss)

\* --------------------------------------------------------------------------
\* Patch indexing, sub-pixel shift and scatter-add (helpers of the base class)
\* --------------------------------------------------------------------------

\* one phase-ramp factor exp(-2j*pi*k*shift) of fft_shift: 1 at k = 0, and
\* (-1)^shift at the Nyquist pixel of a two-pixel array for an integer shift
Ramp(k, shift) ==
    IF ~IsFinite(shift) THEN NaN
    ELSE IF k = 1 THEN One
    ELSE IF ToInt(shift) % 2 = 0 THEN One ELSE FNeg(One)

fft_shift(ar, shift) ==
    Ifft2(Map2(FMul, Fft2(ar), AsArray([k \in 1..Len(ar) |-> Ramp(k, shift)])))

IClip(n, lo, hi) == IF n < lo THEN lo ELSE IF n > hi THEN hi ELSE n

\* variant: indices beyond the edges wrap around
set_vectorized_patch_indices_wrapped(positions, S, P) ==
    AsArray([i \in 1..Len(positions) |->
        AsArray([s \in 1..S |-> (ToInt(FRound(positions[i])) + (s - 1)) % P])])

\* 0-based object rows covered by each probe pixel at each position:
\* round(x) + (0..S-1), clipped to [0, P-1]
set_vectorized_patch_indices(positions, S, P) ==
    AsArray([i \in 1..Len(positions) |->
        AsArray([s \in 1..S |-> IClip(ToInt(FRound(positions[i])) + (s - 1), 0, P - 1)])])

RECURSIVE SumWhere(_, _, _)
SumWhere(vals, idx, k) ==
    IF vals = <<>> THEN Zero
    ELSE LET rest == SumWhere(SubSeq(vals, 1, Len(vals) - 1),
                              SubSeq(idx, 1, Len(idx) - 1), k)
         IN  IF idx[Len(idx)] = k THEN FAdd(rest, vals[Len(vals)]) ELSE rest

\* object-shaped array whose pixel k is the sum of every patch value whose
\* patch index is k
sum_overlapping_patches_bincounts(patches, rows, P) ==
    AsArray([k \in 1..P |-> SumWhere(Flatten(patches), Flatten(rows), k - 1)])

\* --------------------------------------------------------------------------
\* Forward operator
\* --------------------------------------------------------------------------

overlap_projection(current_object, current_probe, fractional, rows) ==
    LET shifted_probes == AsArray([i \in 1..Len(fractional) |-> fft_shift(current_probe, fractional[i])])
        object_patches == AsArray([i \in 1..Len(rows) |->
                              AsArray([s \in 1..Len(rows[i]) |-> current_object[rows[i][s] + 1]])])
    IN  [shifted_probes |-> shifted_probes,
         object_patches |-> object_patches,
         overlap |-> BMul(shifted_probes, object_patches)]

BFft2(xss) == AsArray([i \in 1..Len(xss) |-> Fft2(xss[i])])
BIfft2(xss) == AsArray([i \in 1..Len(xss) |-> Ifft2(xss[i])])

\* variant: the modified overlap is returned without subtracting the overlap
gradient_descent_fourier_projection_no_difference(amplitudes, overlap, mean_diffraction_intensity) ==
    LET fourier_overlap == BFft2(overlap)
        err == FDiv(BMean(BMap1(FSquare,
                        BMap1(FAbs, BSub(amplitudes, BMap1(FAbs, fourier_overlap))))),
                      mean_diffraction_intensity)
        fourier_modified_overlap == BMul(amplitudes, BMap1(PhaseFactor, fourier_overlap))
        modified_overlap == BIfft2(fourier_modified_overlap)
    IN  [exit_waves |-> modified_overlap, error |-> err]

\* variant: the measured amplitudes are transformed back without the phase
\* of the overlap
gradient_descent_fourier_projection_no_phase(amplitudes, overlap, mean_diffraction_intensity) ==
    LET fourier_overlap == BFft2(overlap)
        err == FDiv(BMean(BMap1(FSquare,
                        BMap1(FAbs, BSub(amplitudes, BMap1(FAbs, fourier_overlap))))),
                      mean_diffraction_intensity)
        modified_overlap == BIfft2(amplitudes)
    IN  [exit_waves |-> BSub(modified_overlap, overlap), error |-> err]

gradient_descent_fourier_projection(amplitudes, overlap, mean_diffraction_intensity) ==
    LET fourier_overlap == BFft2(overlap)
        err == FDiv(BMean(BMap1(FSquare,
                        BMap1(FAbs, BSub(amplitudes, BMap1(FAbs, fourier_overlap))))),
                      mean_diffraction_intensity)
        fourier_modified_overlap == BMul(amplitudes, BMap1(PhaseFactor, fourier_overlap))
        modified_overlap == BIfft2(fourier_modified_overlap)
    IN  [exit_waves |-> BSub(modified_overlap, overlap), error |-> err]

\* a cached array holding one measurement broadcasts over the batch
Broadcast(ew, n) == AsArray([i \in 1..n |-> IF Len(ew) = 1 THEN ew[1] ELSE ew[i]])

\* variant: projection_y taken as 1 - projection_b
projection_sets_fourier_projection_wrong_y(amplitudes, overlap, exit_waves, projection_a, projection_b, projection_c, mean_diffraction_intensity) ==
    LET projection_x == FSub(FSub(One, projection_a), projection_b)
        projection_y == FSub(One, projection_b)
        fourier_overlap == BFft2(overlap)
        err == FDiv(BMean(BMap1(FSquare,
                        BMap1(FAbs, BSub(amplitudes, BMap1(FAbs, fourier_overlap))))),
                      mean_diffraction_intensity)
        exit_waves_prev == IF exit_waves.state = "None" THEN overlap
                           ELSE Broadcast(exit_waves.v, Len(overlap))
        factor_to_be_projected ==
            BAdd(BScale(projection_c, overlap), BScale(projection_y, exit_waves_prev))
        fourier_projected_factor ==
            BMul(amplitudes, BMap1(PhaseFactor, BFft2(factor_to_be_projected)))
        projected_factor == BIfft2(fourier_projected_factor)
    IN  [exit_waves |-> BAdd(BAdd(BScale(projection_x, exit_waves_prev),
                                  BScale(projection_a, overlap)),
                             BScale(projection_b, projected_factor)),
         error |-> err]

\* variant: the error is the amplitude residual of the factor that is projected
projection_sets_fourier_projection_error_of_factor(amplitudes, overlap, exit_waves, projection_a, projection_b, projection_c, mean_diffraction_intensity) ==
    LET projection_x == FSub(FSub(One, projection_a), projection_b)
        projection_y == FSub(One, projection_c)
        exit_waves_prev == IF exit_waves.state = "None" THEN overlap
                           ELSE Broadcast(exit_waves.v, Len(overlap))
        factor_to_be_projected ==
            BAdd(BScale(projection_c, overlap), BScale(projection_y, exit_waves_prev))
        err == FDiv(BMean(BMap1(FSquare,
                        BMap1(FAbs, BSub(amplitudes,
                                         BMap1(FAbs, BFft2(factor_to_be_projected)))))),
                      mean_diffraction_intensity)
        fourier_projected_factor ==
            BMul(amplitudes, BMap1(PhaseFactor, BFft2(factor_to_be_projected)))
        projected_factor == BIfft2(fourier_projected_factor)
    IN  [exit_waves |-> BAdd(BAdd(BScale(projection_x, exit_waves_prev),
                                  BScale(projection_a, overlap)),
                             BScale(projection_b, projected_factor)),
         error |-> err]

\* variant: the projected factor is returned as the exit wave
projection_sets_fourier_projection_projected_only(amplitudes, overlap, exit_waves, projection_a, projection_b, projection_c, mean_diffraction_intensity) ==
    LET projection_y == FSub(One, projection_c)
        fourier_overlap == BFft2(overlap)
        err == FDiv(BMean(BMap1(FSquare,
                        BMap1(FAbs, BSub(amplitudes, BMap1(FAbs, fourier_overlap))))),
                      mean_diffraction_intensity)
        exit_waves_prev == IF exit_waves.state = "None" THEN overlap
                           ELSE Broadcast(exit_waves.v, Len(overlap))
        factor_to_be_projected ==
            BAdd(BScale(projection_c, overlap), BScale(projection_y, exit_waves_prev))
        fourier_projected_factor ==
            BMul(amplitudes, BMap1(PhaseFactor, BFft2(factor_to_be_projected)))
    IN  [exit_waves |-> BIfft2(fourier_projected_factor), error |-> err]

\* exit_waves: [state |-> "None", v |-> <<>>] or [state |-> "array", v |-> batch array]
projection_sets_fourier_projection(amplitudes, overlap, exit_waves, projection_a, projection_b, projection_c, mean_diffraction_intensity) ==
    LET projection_x == FSub(FSub(One, projection_a), projection_b)
        projection_y == FSub(One, projection_c)
        fourier_overlap == BFft2(overlap)
        err == FDiv(BMean(BMap1(FSquare,
                        BMap1(FAbs, BSub(amplitudes, BMap1(FAbs, fourier_overlap))))),
                      mean_diffraction_intensity)
        exit_waves_prev == IF exit_waves.state = "None" THEN overlap
                           ELSE Broadcast(exit_waves.v, Len(overlap))
        factor_to_be_projected ==
            BAdd(BScale(projection_c, overlap), BScale(projection_y, exit_waves_prev))
        fourier_projected_factor ==
            BMul(amplitudes, BMap1(PhaseFactor, BFft2(factor_to_be_projected)))
        projected_factor == BIfft2(fourier_projected_factor)
    IN  [exit_waves |-> BAdd(BAdd(BScale(projection_x, exit_waves_prev),
                                  BScale(projection_a, overlap)),
                             BScale(projection_b, projected_factor)),
         error |-> err]

\* variant: gradient descent adds the cached exit waves to its difference
forward_gradient_descent_adds_cache(current_object, current_probe, amplitudes, exit_waves, use_projection_scheme, projection_a, projection_b, projection_c, fractional, rows, mean_diffraction_intensity) ==
    With(overlap_projection(current_object, current_probe, fractional, rows),
         LAMBDA op :
    With(IF use_projection_scheme
         THEN projection_sets_fourier_projection(amplitudes, op.overlap, exit_waves,
                  projection_a, projection_b, projection_c, mean_diffraction_intensity)
         ELSE With(gradient_descent_fourier_projection(amplitudes, op.overlap,
                       mean_diffraction_intensity),
                   LAMBDA gd :
                   IF exit_waves.state = "array"
                   THEN [exit_waves |-> BAdd(gd.exit_waves,
                                             Broadcast(exit_waves.v, Len(op.overlap))),
                         error |-> gd.error]
                   ELSE gd),
         LAMBDA fp :
    [shifted_probes |-> op.shifted_probes,
     object_patches |-> op.object_patches,
     exit_waves |-> fp.exit_waves,
     error |-> fp.error]))

forward(current_object, current_probe, amplitudes, exit_waves, use_projection_scheme, projection_a, projection_b, projection_c, fractional, rows, mean_diffraction_intensity) ==
    With(overlap_projection(current_object, current_probe, fractional, rows),
         LAMBDA op :
    With(IF use_projection_scheme
         THEN projection_sets_fourier_projection(amplitudes, op.overlap, exit_waves,
                  projection_a, projection_b, projection_c, mean_diffraction_intensity)
         ELSE gradient_descent_fourier_projection(amplitudes, op.overlap,
                  mean_diffraction_intensity),
         LAMBDA fp :
    [shifted_probes |-> op.shifted_probes,
     object_patches |-> op.object_patches,
     exit_waves |-> fp.exit_waves,
     error |-> fp.error]))

\* --------------------------------------------------------------------------
\* Adjoint operator
\* --------------------------------------------------------------------------

\* the 1e-9 added to both normalization denominators
NormalizationFloor == [m |-> 1, e |-> -9]

FInv(x) == FDiv(One, x)

gradient_descent_adjoint(current_object, current_probe, object_patches, shifted_probes, exit_waves, step_size, normalization_min, fix_probe, rows) ==
    LET P == Len(current_object)
        probe_max == FMaxOf(Flatten(BMap1(FAbs, shifted_probes)))
        probe_weight ==
            BMap1(LAMBDA sp : FAdd(FMul(normalization_min, FSquare(FAbs(sp))),
                                   FMul(FSub(One, normalization_min), FSquare(probe_max))),
                  shifted_probes)
        probe_normalization ==
            Map1(LAMBDA w : FInv(FAdd(NormalizationFloor, w)),
                 sum_overlapping_patches_bincounts(probe_weight, rows, P))
        object_sum ==
            sum_overlapping_patches_bincounts(BMul(shifted_probes, exit_waves), rows, P)
        new_object ==
            AsArray([k \in 1..P |->
                FAdd(current_object[k],
                     FMul(step_size, FMul(object_sum[k], probe_normalization[k])))])
        patch_max == FMaxOf(Flatten(BMap1(FAbs, object_patches)))
        patch_weight ==
            BMap1(LAMBDA op : FAdd(FMul(normalization_min, FSquare(FAbs(op))),
                                   FMul(FSub(One, normalization_min), FSquare(patch_max))),
                  object_patches)
        object_normalization ==
            Map1(LAMBDA w : FInv(FAdd(NormalizationFloor, w)), SumAxis0(patch_weight))
        probe_sum == SumAxis0(BMul(object_patches, exit_waves))
        new_probe ==
            AsArray([s \in 1..Len(current_probe) |->
                FAdd(current_probe[s],
                     FMul(step_size, FMul(probe_sum[s], object_normalization[s])))])
    IN  [object |-> new_object,
         probe |-> IF fix_probe THEN current_probe ELSE new_probe]

projection_sets_adjoint(current_object, current_probe, object_patches, shifted_probes, exit_waves, normalization_min, fix_probe, rows) ==
    LET P == Len(current_object)
        probe_sum == sum_overlapping_patches_bincounts(
                         BMap1(LAMBDA sp : FSquare(FAbs(sp)), shifted_probes), rows, P)
        probe_sum_max == FMaxOf(probe_sum)
        probe_normalization ==
            Map1(LAMBDA n : FInv(FSqrt(FAdd(FSquare(n),
                                 FSquare(FMul(normalization_min, probe_sum_max))))),
                 probe_sum)
        object_sum ==
            sum_overlapping_patches_bincounts(BMul(shifted_probes, exit_waves), rows, P)
        new_object == Map2(FMul, object_sum, probe_normalization)
        patch_sum == SumAxis0(BMap1(LAMBDA op : FSquare(FAbs(op)), object_patches))
        patch_sum_max == FMaxOf(patch_sum)
        object_normalization ==
            Map1(LAMBDA n : FInv(FSqrt(FAdd(FSquare(n),
                                 FSquare(FMul(normalization_min, patch_sum_max))))),
                 patch_sum)
        new_probe == Map2(FMul, SumAxis0(BMul(object_patches, exit_waves)),
                          object_normalization)
    IN  [object |-> new_object,
         probe |-> IF fix_probe THEN current_probe ELSE new_probe]

adjoint(current_object, current_probe, object_patches, shifted_probes, current_positions, exit_waves, use_projection_scheme, step_size, normalization_min, fix_probe, fix_positions, rows) ==
    With(IF use_projection_scheme
         THEN projection_sets_adjoint(current_object, current_probe, object_patches,
                  shifted_probes, exit_waves, normalization_min, fix_probe, rows)
         ELSE gradient_descent_adjoint(current_object, current_probe, object_patches,
                  shifted_probes, exit_waves, step_size, normalization_min,
                  fix_probe, rows),
         LAMBDA r :
    [object |-> r.object, probe |-> r.probe, positions |-> current_positions])

\* --------------------------------------------------------------------------
\* Constraints
\* --------------------------------------------------------------------------

object_threshold_constraint(current_object, pure_phase_object) ==
    LET phase == Map1(PhaseFactor, current_object)
        amplitude == IF pure_phase_object THEN AsArray([k \in 1..Len(current_object) |-> One])
                     ELSE Map1(LAMBDA o : FMin(FAbs(o), One), current_object)
    IN  Map2(FMul, amplitude, phase)

\* gaussian_filter with sigma = 0 has the one-tap kernel [1]
gaussian_filter(ar, sigma) == ar

object_smoothness_constraint(current_object, gaussian_blur_sigma, pure_phase_object) ==
    IF pure_phase_object
    THEN LET amplitude == Map1(FAbs, current_object)
             \* exp(1j * gaussian_filter(angle(object)))
             phase == gaussian_filter(Map1(PhaseFactor, current_object), gaussian_blur_sigma)
         IN  Map2(FMul, amplitude, phase)
    ELSE gaussian_filter(current_object, gaussian_blur_sigma)

\* centroid of an intensity array along its row axis (0/0 = nan for a dark array)
get_CoM(intensity) ==
    FDiv(FSum(AsArray([s \in 1..Len(intensity) |-> FMul(FromInt(s - 1), intensity[s])])),
         FSum(intensity))

probe_center_of_mass_constraint(current_probe) ==
    LET probe_center == FDiv(FromInt(Len(current_probe)), FromInt(2))
        probe_intensity == Map1(LAMBDA p : FSquare(FAbs(p)), current_probe)
        probe_x0 == get_CoM(probe_intensity)
    IN  fft_shift(current_probe, FSub(probe_center, probe_x0))

probe_fourier_amplitude_constraint(current_probe, probe_initial_fft_amplitude) ==
    LET current_probe_fft == Fft2(current_probe)
        constrained_probe_fft ==
            Map2(FMul, probe_initial_fft_amplitude, Map1(PhaseFactor, current_probe_fft))
    IN  Ifft2(constrained_probe_fft)

probe_finite_support_constraint(current_probe, probe_support_mask) ==
    Map2(FMul, current_probe, probe_support_mask)

FMean(xs) == FDiv(FSum(xs), FromInt(Len(xs)))

\* variant: the positions are moved half of the way to the reference
positions_center_of_mass_constraint_half_step(current_positions, positions_px_com, S, P) ==
    LET shift == FDiv(FSub(FMean(current_positions), positions_px_com), FromInt(2))
    IN  With(Map1(LAMBDA x : FSub(x, shift), current_positions),
             LAMBDA positions :
        [positions |-> positions,
         fractional |-> Map1(LAMBDA x : FSub(x, FRound(x)), positions),
         rows |-> set_vectorized_patch_indices(positions, S, P)])

\* returns the corrected positions with the fractional offsets and patch
\* indices it assigns on the instance
positions_center_of_mass_constraint(current_positions, positions_px_com, S, P) ==
    LET shift == FSub(FMean(current_positions), positions_px_com)
    IN  With(Map1(LAMBDA x : FSub(x, shift), current_positions),
             LAMBDA positions :
        [positions |-> positions,
         fractional |-> Map1(LAMBDA x : FSub(x, FRound(x)), positions),
         rows |-> set_vectorized_patch_indices(positions, S, P)])

\* variant: the probe is recentred before its support is masked
constraints_recentre_before_support(current_object, current_probe, current_positions, fractional, rows, pure_phase_object, gaussian_blur_sigma, fix_com, fix_probe_fourier_amplitude, fix_positions, probe_initial_fft_amplitude, probe_support_mask, positions_px_com) ==
    LET o1 == IF gaussian_blur_sigma # None
              THEN object_smoothness_constraint(current_object, gaussian_blur_sigma,
                                                pure_phase_object)
              ELSE current_object
        o2 == object_threshold_constraint(o1, pure_phase_object)
        p1 == IF fix_probe_fourier_amplitude
              THEN probe_fourier_amplitude_constraint(current_probe,
                                                      probe_initial_fft_amplitude)
              ELSE current_probe
        p3 == With(IF fix_com THEN probe_center_of_mass_constraint(p1) ELSE p1,
                   LAMBDA p2 : probe_finite_support_constraint(p2, probe_support_mask))
    IN  With(IF ~fix_positions
             THEN positions_center_of_mass_constraint(current_positions, positions_px_com,
                      Len(current_probe), Len(current_object))
             ELSE [positions |-> current_positions, fractional |-> fractional,
                   rows |-> rows],
             LAMBDA x1 :
        [object |-> o2, probe |-> p3, positions |-> x1.positions,
         fractional |-> x1.fractional, rows |-> x1.rows,
         applied |-> (IF gaussian_blur_sigma # None THEN <<"object_smoothness">> ELSE <<>>)
                     \o <<"object_threshold">>
                     \o (IF fix_probe_fourier_amplitude THEN <<"probe_fourier_amplitude">>
                         ELSE <<>>)
                     \o (IF fix_com THEN <<"probe_center_of_mass">> ELSE <<>>)
                     \o <<"probe_finite_support">>
                     \o (IF ~fix_positions THEN <<"positions_center_of_mass">> ELSE <<>>)])

\* The six constraints in the order _constraints applies them; `applied`
\* lists the ones that ran.  fractional and rows are the instance's
\* _positions_px_fractional and patch indices, reassigned by the position
\* constraint only.
constraints(current_object, current_probe, current_positions, fractional, rows, pure_phase_object, gaussian_blur_sigma, fix_com, fix_probe_fourier_amplitude, fix_positions, probe_initial_fft_amplitude, probe_support_mask, positions_px_com) ==
    LET o1 == IF gaussian_blur_sigma # None
              THEN object_smoothness_constraint(current_object, gaussian_blur_sigma,
                                                pure_phase_object)
              ELSE current_object
        o2 == object_threshold_constraint(o1, pure_phase_object)
        p1 == IF fix_probe_fourier_amplitude
              THEN probe_fourier_amplitude_constraint(current_probe,
                                                      probe_initial_fft_amplitude)
              ELSE current_probe
        p3 == With(probe_finite_support_constraint(p1, probe_support_mask),
                   LAMBDA p2 : IF fix_com THEN probe_center_of_mass_constraint(p2) ELSE p2)
    IN  With(IF ~fix_positions
             THEN positions_center_of_mass_constraint(current_positions, positions_px_com,
                      Len(current_probe), Len(current_object))
             ELSE [positions |-> current_positions, fractional |-> fractional,
                   rows |-> rows],
             LAMBDA x1 :
        [object |-> o2, probe |-> p3, positions |-> x1.positions,
         fractional |-> x1.fractional, rows |-> x1.rows,
         applied |-> (IF gaussian_blur_sigma # None THEN <<"object_smoothness">> ELSE <<>>)
                     \o <<"object_threshold">>
                     \o (IF fix_probe_fourier_amplitude THEN <<"probe_fourier_amplitude">>
                         ELSE <<>>)
                     \o <<"probe_finite_support">>
                     \o (IF fix_com THEN <<"probe_center_of_mass">> ELSE <<>>)
                     \o (IF ~fix_positions THEN <<"positions_center_of_mass">> ELSE <<>>)])

\* --------------------------------------------------------------------------
\* Program state
\* --------------------------------------------------------------------------

VARIABLES
    \* set by preprocess() and read by the loop
    _amplitudes, _mean_diffraction_intensity, _object_initial, _probe_initial,
    _positions_px_initial, _positions_px_com, _probe_initial_fft_amplitude,
    \* working state of the reconstruction
    _object, _probe, _positions_px, _positions_px_fractional,
    _vectorized_patch_indices_row, _exit_waves, _probe_support_mask,
    \* results
    object, probe, error, object_iterations, probe_iterations, error_iterations,
    \* names of the optional attributes the instance has (hasattr)
    attrs,
    \* the running reconstruct() call: position, arguments and locals
    pc, frame,
    \* number of reconstruct() calls made
    ncalls,
    \* what the running call has done so far (history, not program state)
    hist,
    \* one application of a Fourier projection to given arrays: inputs, result
    fn

readonly == <<_amplitudes, _mean_diffraction_intensity, _object_initial, _probe_initial,
              _positions_px_initial, _positions_px_com, _probe_initial_fft_amplitude>>

working == <<_object, _probe, _positions_px, _positions_px_fractional,
             _vectorized_patch_indices_row, _exit_waves, _probe_support_mask>>

results == <<object, probe, error, object_iterations, probe_iterations, error_iterations>>

vars == <<readonly, working, results, attrs, pc, frame, ncalls, hist, fn>>

_num_diffraction_patterns == Len(_amplitudes)

\* --------------------------------------------------------------------------
\* Bounds and inputs
\* --------------------------------------------------------------------------

MaxCalls == 2
MaxIter == 2

F(n, d) == FDiv(FromInt(n), FromInt(d))

\* datasets: the measured amplitudes, one detector array per scan position,
\* and the scan positions in pixels (row coordinate; the column axis has one
\* pixel)
Datasets ==
    { << <<<<FromInt(2)>>, <<FromInt(1)>>>>, <<FromInt(0), FromInt(1)>> >>,
      << <<<<FromInt(1)>>, <<FromInt(3)>>>>, <<FromInt(0), FromInt(0)>> >> }

\* three measurements, two of them on the same pixel
BatchDataset ==
    << <<<<FromInt(2)>>, <<FromInt(1)>>, <<FromInt(3)>>>>,
       <<FromInt(0), FromInt(0), FromInt(1)>> >>

ProbeGuess == <<One>>
ObjectPadding == One

IMax(a, b) == IF a > b THEN a ELSE b

\* --------------------------------------------------------------------------
\* preprocess()
\* --------------------------------------------------------------------------

\* mean over the measurements of the summed detector intensity
normalize_diffraction_intensities(amplitudes) ==
    FMean(AsArray([i \in 1..Len(amplitudes) |-> FSum(Map1(FSquare, amplitudes[i]))]))

Preprocess(amplitudes, positions, probe_guess, pad) ==
    With(normalize_diffraction_intensities(amplitudes), LAMBDA mean_intensity :
    With(IMax(ToInt(FRound(FAdd(FMaxOf(positions), pad))), Len(probe_guess)), LAMBDA p :
    With(Scale(FSqrt(FDiv(mean_intensity,
                          FSum(Map1(LAMBDA x : FSquare(FAbs(x)), Fft2(probe_guess))))),
               probe_guess),
         LAMBDA prb :
    [amplitudes |-> amplitudes,
     mean_diffraction_intensity |-> mean_intensity,
     object |-> AsArray([k \in 1..p |-> One]),
     positions_px |-> positions,
     positions_px_com |-> FMean(positions),
     positions_px_fractional |-> Map1(LAMBDA x : FSub(x, FRound(x)), positions),
     rows |-> set_vectorized_patch_indices(positions, Len(probe_guess), p),
     probe |-> prb,
     probe_initial_fft_amplitude |-> Map1(FAbs, Fft2(prb))])))

NoArray == <<>>

\* the frame of no call
NoFrame == [active |-> FALSE]
\* cache: the step that produced the array in the exit-wave cache
NoHist == [active |-> FALSE, cache |-> [projection |-> FALSE, indices |-> <<>>]]

NoCall == [op |-> "none"]

\* the instance after construction and preprocess()
InitWith(amps, pos) ==
    \E pp \in {Preprocess(amps, pos, ProbeGuess, ObjectPadding)} :
    /\ _amplitudes = pp.amplitudes
    /\ _mean_diffraction_intensity = pp.mean_diffraction_intensity
    /\ _object_initial = pp.object
    /\ _probe_initial = pp.probe
    /\ _positions_px_initial = pp.positions_px
    /\ _positions_px_com = pp.positions_px_com
    /\ _probe_initial_fft_amplitude = pp.probe_initial_fft_amplitude
    /\ _object = pp.object
    /\ _probe = pp.probe
    /\ _positions_px = pp.positions_px
    /\ _positions_px_fractional = pp.positions_px_fractional
    /\ _vectorized_patch_indices_row = pp.rows
    /\ _exit_waves = [state |-> "unset", v |-> NoArray]
    /\ _probe_support_mask = NoArray
    /\ object = NoArray
    /\ probe = NoArray
    /\ error = Zero
    /\ object_iterations = <<>>
    /\ probe_iterations = <<>>
    /\ error_iterations = <<>>
    /\ attrs = {}
    /\ pc = "idle"
    /\ frame = NoFrame
    /\ ncalls = 0
    /\ hist = NoHist

Init ==
    /\ \E ds \in Datasets : InitWith(ds[1], ds[2])
    /\ fn = NoCall

\* --------------------------------------------------------------------------
\* reconstruct(): argument checks and initialization
\* --------------------------------------------------------------------------

\* variant: the RAAR row of the table with projection_b and projection_c swapped
method_lookup_raar_swapped(reconstruction_method, reconstruction_parameter, step_size) ==
    IF FLt(reconstruction_parameter, Zero) \/ FLt(One, reconstruction_parameter)
    THEN [exc |-> "ValueError", use_projection_scheme |-> FALSE,
          projection_a |-> PyNone, projection_b |-> PyNone, projection_c |-> PyNone,
          step_size |-> step_size]
    ELSE IF reconstruction_method = "DM_AP"
            \/ reconstruction_method = "difference-map_alternating-projections"
    THEN [exc |-> "", use_projection_scheme |-> TRUE,
          projection_a |-> FNeg(reconstruction_parameter),
          projection_b |-> One,
          projection_c |-> FAdd(One, reconstruction_parameter),
          step_size |-> PyNone]
    ELSE IF reconstruction_method = "RAAR"
            \/ reconstruction_method = "relaxed-averaged-alternating-reflections"
    THEN [exc |-> "", use_projection_scheme |-> TRUE,
          projection_a |-> FSub(One, FMul(FromInt(2), reconstruction_parameter)),
          projection_b |-> FromInt(2),
          projection_c |-> reconstruction_parameter,
          step_size |-> PyNone]
    ELSE IF reconstruction_method = "GD" \/ reconstruction_method = "gradient-descent"
    THEN [exc |-> "", use_projection_scheme |-> FALSE,
          projection_a |-> PyNone, projection_b |-> PyNone, projection_c |-> PyNone,
          step_size |-> step_size]
    ELSE [exc |-> "ValueError", use_projection_scheme |-> FALSE,
          projection_a |-> PyNone, projection_b |-> PyNone, projection_c |-> PyNone,
          step_size |-> step_size]

\* variant: DM_AP takes projection_a = alpha
method_lookup_dm_positive_a(reconstruction_method, reconstruction_parameter, step_size) ==
    IF FLt(reconstruction_parameter, Zero) \/ FLt(One, reconstruction_parameter)
    THEN [exc |-> "ValueError", use_projection_scheme |-> FALSE,
          projection_a |-> PyNone, projection_b |-> PyNone, projection_c |-> PyNone,
          step_size |-> step_size]
    ELSE IF reconstruction_method = "DM_AP"
            \/ reconstruction_method = "difference-map_alternating-projections"
    THEN [exc |-> "", use_projection_scheme |-> TRUE,
          projection_a |-> reconstruction_parameter,
          projection_b |-> One,
          projection_c |-> FAdd(One, reconstruction_parameter),
          step_size |-> PyNone]
    ELSE IF reconstruction_method = "RAAR"
            \/ reconstruction_method = "relaxed-averaged-alternating-reflections"
    THEN [exc |-> "", use_projection_scheme |-> TRUE,
          projection_a |-> FSub(One, FMul(FromInt(2), reconstruction_parameter)),
          projection_b |-> reconstruction_parameter,
          projection_c |-> FromInt(2),
          step_size |-> PyNone]
    ELSE IF reconstruction_method = "GD" \/ reconstruction_method = "gradient-descent"
    THEN [exc |-> "", use_projection_scheme |-> FALSE,
          projection_a |-> PyNone, projection_b |-> PyNone, projection_c |-> PyNone,
          step_size |-> step_size]
    ELSE [exc |-> "ValueError", use_projection_scheme |-> FALSE,
          projection_a |-> PyNone, projection_b |-> PyNone, projection_c |-> PyNone,
          step_size |-> step_size]

\* lines 1330-1357: the reconstruction_parameter range check, then the lookup
\* of the method name
method_lookup(reconstruction_method, reconstruction_parameter, step_size) ==
    IF FLt(reconstruction_parameter, Zero) \/ FLt(One, reconstruction_parameter)
    THEN [exc |-> "ValueError", use_projection_scheme |-> FALSE,
          projection_a |-> PyNone, projection_b |-> PyNone, projection_c |-> PyNone,
          step_size |-> step_size]
    ELSE IF reconstruction_method = "DM_AP"
            \/ reconstruction_method = "difference-map_alternating-projections"
    THEN [exc |-> "", use_projection_scheme |-> TRUE,
          projection_a |-> FNeg(reconstruction_parameter),
          projection_b |-> One,
          projection_c |-> FAdd(One, reconstruction_parameter),
          step_size |-> PyNone]
    ELSE IF reconstruction_method = "RAAR"
            \/ reconstruction_method = "relaxed-averaged-alternating-reflections"
    THEN [exc |-> "", use_projection_scheme |-> TRUE,
          projection_a |-> FSub(One, FMul(FromInt(2), reconstruction_parameter)),
          projection_b |-> reconstruction_parameter,
          projection_c |-> FromInt(2),
          step_size |-> PyNone]
    ELSE IF reconstruction_method = "GD" \/ reconstruction_method = "gradient-descent"
    THEN [exc |-> "", use_projection_scheme |-> FALSE,
          projection_a |-> PyNone, projection_b |-> PyNone, projection_c |-> PyNone,
          step_size |-> step_size]
    ELSE [exc |-> "ValueError", use_projection_scheme |-> FALSE,
          projection_a |-> PyNone, projection_b |-> PyNone, projection_c |-> PyNone,
          step_size |-> step_size]

\* variant: max_batch_size is accepted with a projection method
batching_unchecked(max_batch_size, use_projection_scheme, num_diffraction_patterns) ==
    IF max_batch_size # None
    THEN [exc |-> "", max_batch_size |-> max_batch_size]
    ELSE [exc |-> "", max_batch_size |-> num_diffraction_patterns]

\* lines 1371-1381
batching(max_batch_size, use_projection_scheme, num_diffraction_patterns) ==
    IF max_batch_size # None
    THEN [exc |-> IF use_projection_scheme THEN "ValueError" ELSE "",
          max_batch_size |-> max_batch_size]
    ELSE [exc |-> "", max_batch_size |-> num_diffraction_patterns]

\* variant: reset does not start the lists afresh
starts_lists_ignoring_reset(store_iterations, has_object_iterations, reset) ==
    store_iterations /\ ~has_object_iterations

\* lines 1385-1388: whether the three history lists are started afresh
starts_lists(store_iterations, has_object_iterations, reset) ==
    store_iterations /\ (~has_object_iterations \/ reset = "True")

\* variant: reset=True restores the snapshots and keeps the cached exit waves
initialization_keeps_exit_waves(reset, has_error, w, d) ==
    IF reset = "True"
    THEN [object |-> d.object_initial,
          probe |-> d.probe_initial,
          positions_px |-> d.positions_px_initial,
          positions_px_fractional |->
              Map1(LAMBDA x : FSub(x, FRound(x)), d.positions_px_initial),
          rows |-> set_vectorized_patch_indices(d.positions_px_initial,
                       Len(d.probe_initial), Len(d.object_initial)),
          exit_waves |-> IF w.exit_waves.state = "unset"
                         THEN [state |-> "None", v |-> <<>>]
                         ELSE w.exit_waves]
    ELSE IF reset = "None" /\ ~has_error
    THEN [w EXCEPT !.exit_waves = [state |-> "None", v |-> <<>>]]
    ELSE w

\* lines 1390-1409: the working attributes after the reset branch.
\* w: [object, probe, positions_px, positions_px_fractional, rows, exit_waves]
initialization(reset, has_error, w, d) ==
    IF reset = "True"
    THEN [object |-> d.object_initial,
          probe |-> d.probe_initial,
          positions_px |-> d.positions_px_initial,
          positions_px_fractional |->
              Map1(LAMBDA x : FSub(x, FRound(x)), d.positions_px_initial),
          rows |-> set_vectorized_patch_indices(d.positions_px_initial,
                       Len(d.probe_initial), Len(d.object_initial)),
          exit_waves |-> [state |-> "None", v |-> <<>>]]
    ELSE IF reset = "None" /\ ~has_error
    THEN [w EXCEPT !.exit_waves = [state |-> "None", v |-> <<>>]]
    ELSE w

RECURSIVE FPow(_, _)
FPow(x, n) == IF n = 0 THEN One ELSE FMul(FPow(x, n - 1), x)

\* exp(-t) for t >= 0 where it rounds to 1, where it underflows to 0, and at 1
ExpNeg(t) ==
    IF FLt(t, [m |-> 1, e |-> -(Digits + 2)]) THEN One
    ELSE IF FLt(FromInt(745), t) THEN Zero
    ELSE CHOOSE v \in {F(368, 1000)} : t = One

\* lines 1411-1423, along the row axis; the one-pixel column axis has yy = -1
probe_support_mask(S, probe_support_relative_radius, probe_support_supergaussian_degree) ==
    [s \in 1..S |->
        LET xx == FAdd(FNeg(One), FDiv(FromInt(2 * (s - 1)), FromInt(S)))
            yy == FNeg(One)
        IN  ExpNeg(FPow(FAdd(FSquare(FDiv(xx, probe_support_relative_radius)),
                             FSquare(FDiv(yy, probe_support_relative_radius))),
                        probe_support_supergaussian_degree))]

RECURSIVE generate_batches_from(_, _, _)
generate_batches_from(start, num_items, max_batch) ==
    IF start >= num_items THEN <<>>
    ELSE LET end == IF start + max_batch < num_items THEN start + max_batch ELSE num_items
         IN  <<<<start, end>>>> \o generate_batches_from(end, num_items, max_batch)

\* (start, end) of fixed-size contiguous batches; the last one takes the rest
generate_batches(num_items, max_batch) == generate_batches_from(0, num_items, max_batch)


\* --------------------------------------------------------------------------
\* reconstruct(): one batch of the main loop
\* --------------------------------------------------------------------------

\* variant: array[start:end], the index order ignored
batch_slice_unshuffled(array, shuffled_indices, start, end) ==
    AsArray([j \in 1..(end - start) |-> array[start + j]])

\* array[shuffled_indices][start:end]
batch_slice(array, shuffled_indices, start, end) ==
    AsArray([j \in 1..(end - start) |-> array[shuffled_indices[start + j] + 1]])

\* variant: the probe is released after the first batch of an iteration
gates_by_batch(a0, start, end, args) ==
    [fix_probe |-> a0 < args.fix_probe_iter /\ start = 0,
     fix_positions |-> a0 < args.fix_positions_iter,
     pure_phase_object |-> a0 < args.pure_phase_object_iter,
     gaussian_sigma |-> IF a0 < args.gaussian_blur_iter THEN args.gaussian_blur_sigma
                        ELSE None,
     fix_com |-> args.fix_com /\ a0 >= args.fix_probe_iter,
     fix_probe_fourier_amplitude |-> a0 < args.fix_probe_fourier_amplitude_iter]

\* the booleans the loop body hands to _adjoint and _constraints for the batch
\* [start:end] of iteration a0 (lines 1463-1464 and 1481-1491)
gates(a0, start, end, args) ==
    [fix_probe |-> a0 < args.fix_probe_iter,
     fix_positions |-> a0 < args.fix_positions_iter,
     pure_phase_object |-> a0 < args.pure_phase_object_iter,
     gaussian_sigma |-> IF a0 < args.gaussian_blur_iter THEN args.gaussian_blur_sigma
                        ELSE None,
     fix_com |-> args.fix_com /\ a0 >= args.fix_probe_iter,
     fix_probe_fourier_amplitude |-> a0 < args.fix_probe_fourier_amplitude_iter]

\* the instance attributes the loop reads and never assigns
ReadOnly ==
    [amplitudes |-> _amplitudes,
     mean_diffraction_intensity |-> _mean_diffraction_intensity,
     object_initial |-> _object_initial,
     probe_initial |-> _probe_initial,
     positions_px_initial |-> _positions_px_initial,
     positions_px_com |-> _positions_px_com,
     probe_initial_fft_amplitude |-> _probe_initial_fft_amplitude]

\* variant: the errors of the batches of an iteration are added up
batch_step_summed_error(w, fr, d, start, end) ==
    With(batch_slice(d.positions_px_initial, fr.shuffled_indices, start, end),
         LAMBDA positions_px :
    With(Map1(LAMBDA x : FSub(x, FRound(x)), positions_px), LAMBDA fractional :
    With(set_vectorized_patch_indices(positions_px, Len(w.probe), Len(w.object)),
         LAMBDA rows :
    With(batch_slice(d.amplitudes, fr.shuffled_indices, start, end), LAMBDA amplitudes :
    IF w.exit_waves.state = "unset"
    THEN [exc |-> "AttributeError", object |-> w.object, probe |-> w.probe,
          positions_px |-> positions_px, positions_px_fractional |-> fractional,
          rows |-> rows, exit_waves |-> w.exit_waves, error |-> fr.error,
          gates |-> <<>>, applied |-> <<>>, amplitudes |-> amplitudes,
          positions_batch |-> positions_px]
    ELSE
    With(forward(w.object, w.probe, amplitudes, w.exit_waves,
                 fr.use_projection_scheme, fr.projection_a, fr.projection_b,
                 fr.projection_c, fractional, rows, d.mean_diffraction_intensity),
         LAMBDA fw :
    With(gates(fr.a0, start, end, fr.args), LAMBDA g :
    With(adjoint(w.object, w.probe, fw.object_patches, fw.shifted_probes,
                 positions_px, fw.exit_waves, fr.use_projection_scheme,
                 fr.step_size, fr.args.normalization_min,
                 g.fix_probe, g.fix_positions, rows),
         LAMBDA ad :
    With(constraints(ad.object, ad.probe, ad.positions, fractional, rows,
                     g.pure_phase_object, g.gaussian_sigma, g.fix_com,
                     g.fix_probe_fourier_amplitude, g.fix_positions,
                     d.probe_initial_fft_amplitude, w.probe_support_mask,
                     d.positions_px_com),
         LAMBDA co :
    [exc |-> "", object |-> co.object, probe |-> co.probe,
     positions_px |-> co.positions, positions_px_fractional |-> co.fractional,
     rows |-> co.rows,
     exit_waves |-> [state |-> "array", v |-> fw.exit_waves],
     error |-> [bound |-> TRUE,
                v |-> IF start > 0 THEN FAdd(fr.error.v, fw.error) ELSE fw.error],
     gates |-> <<g>>, applied |-> co.applied, amplitudes |-> amplitudes,
     positions_batch |-> positions_px]))))))))

\* variant: a projection method moves the object only by step_size times its
\* update
batch_step_damped_projection(w, fr, d, start, end) ==
    With(batch_slice(d.positions_px_initial, fr.shuffled_indices, start, end),
         LAMBDA positions_px :
    With(Map1(LAMBDA x : FSub(x, FRound(x)), positions_px), LAMBDA fractional :
    With(set_vectorized_patch_indices(positions_px, Len(w.probe), Len(w.object)),
         LAMBDA rows :
    With(batch_slice(d.amplitudes, fr.shuffled_indices, start, end), LAMBDA amplitudes :
    IF w.exit_waves.state = "unset"
    THEN [exc |-> "AttributeError", object |-> w.object, probe |-> w.probe,
          positions_px |-> positions_px, positions_px_fractional |-> fractional,
          rows |-> rows, exit_waves |-> w.exit_waves, error |-> fr.error,
          gates |-> <<>>, applied |-> <<>>, amplitudes |-> amplitudes,
          positions_batch |-> positions_px]
    ELSE
    With(forward(w.object, w.probe, amplitudes, w.exit_waves,
                 fr.use_projection_scheme, fr.projection_a, fr.projection_b,
                 fr.projection_c, fractional, rows, d.mean_diffraction_intensity),
         LAMBDA fw :
    With(gates(fr.a0, start, end, fr.args), LAMBDA g :
    With(adjoint(w.object, w.probe, fw.object_patches, fw.shifted_probes,
                 positions_px, fw.exit_waves, fr.use_projection_scheme,
                 fr.step_size, fr.args.normalization_min,
                 g.fix_probe, g.fix_positions, rows),
         LAMBDA ad :
    With(constraints(IF fr.use_projection_scheme
                     THEN Map2(LAMBDA o, n : FAdd(o, FMul(fr.args.step_size, FSub(n, o))),
                               w.object, ad.object)
                     ELSE ad.object,
                     ad.probe, ad.positions, fractional, rows,
                     g.pure_phase_object, g.gaussian_sigma, g.fix_com,
                     g.fix_probe_fourier_amplitude, g.fix_positions,
                     d.probe_initial_fft_amplitude, w.probe_support_mask,
                     d.positions_px_com),
         LAMBDA co :
    [exc |-> "", object |-> co.object, probe |-> co.probe,
     positions_px |-> co.positions, positions_px_fractional |-> co.fractional,
     rows |-> co.rows,
     exit_waves |-> [state |-> "array", v |-> fw.exit_waves],
     error |-> [bound |-> TRUE, v |-> fw.error],
     gates |-> <<g>>, applied |-> co.applied, amplitudes |-> amplitudes,
     positions_batch |-> positions_px]))))))))

\* lines 1440-1492.  w: the working attributes [object, probe, exit_waves,
\* probe_support_mask]; fr: the locals; d: ReadOnly.  exc = "AttributeError"
\* when self._exit_waves was never assigned.
batch_step(w, fr, d, start, end) ==
    With(batch_slice(d.positions_px_initial, fr.shuffled_indices, start, end),
         LAMBDA positions_px :
    With(Map1(LAMBDA x : FSub(x, FRound(x)), positions_px), LAMBDA fractional :
    With(set_vectorized_patch_indices(positions_px, Len(w.probe), Len(w.object)),
         LAMBDA rows :
    With(batch_slice(d.amplitudes, fr.shuffled_indices, start, end), LAMBDA amplitudes :
    IF w.exit_waves.state = "unset"
    THEN [exc |-> "AttributeError", object |-> w.object, probe |-> w.probe,
          positions_px |-> positions_px, positions_px_fractional |-> fractional,
          rows |-> rows, exit_waves |-> w.exit_waves, error |-> fr.error,
          gates |-> <<>>, applied |-> <<>>, amplitudes |-> amplitudes,
          positions_batch |-> positions_px]
    ELSE
    With(forward(w.object, w.probe, amplitudes, w.exit_waves,
                 fr.use_projection_scheme, fr.projection_a, fr.projection_b,
                 fr.projection_c, fractional, rows, d.mean_diffraction_intensity),
         LAMBDA fw :
    With(gates(fr.a0, start, end, fr.args), LAMBDA g :
    With(adjoint(w.object, w.probe, fw.object_patches, fw.shifted_probes,
                 positions_px, fw.exit_waves, fr.use_projection_scheme,
                 fr.step_size, fr.args.normalization_min,
                 g.fix_probe, g.fix_positions, rows),
         LAMBDA ad :
    With(constraints(ad.object, ad.probe, ad.positions, fractional, rows,
                     g.pure_phase_object, g.gaussian_sigma, g.fix_com,
                     g.fix_probe_fourier_amplitude, g.fix_positions,
                     d.probe_initial_fft_amplitude, w.probe_support_mask,
                     d.positions_px_com),
         LAMBDA co :
    [exc |-> "", object |-> co.object, probe |-> co.probe,
     positions_px |-> co.positions, positions_px_fractional |-> co.fractional,
     rows |-> co.rows,
     exit_waves |-> [state |-> "array", v |-> fw.exit_waves],
     error |-> [bound |-> TRUE, v |-> fw.error],
     gates |-> <<g>>, applied |-> co.applied, amplitudes |-> amplitudes,
     positions_batch |-> positions_px]))))))))


\* --------------------------------------------------------------------------
\* reconstruct() as steps: the call, the head of each iteration, each batch,
\* the end of each iteration, the end of the call
\* --------------------------------------------------------------------------

Orders(n) ==
    { q \in [1..n -> 0..(n - 1)] : \A i, j \in 1..n : q[i] = q[j] => i = j }

NewFrame(args) ==
    [active |-> TRUE, args |-> args, exc |-> "",
     use_projection_scheme |-> FALSE,
     projection_a |-> PyNone, projection_b |-> PyNone, projection_c |-> PyNone,
     step_size |-> args.step_size, max_batch_size |-> args.max_batch_size,
     shuffled_indices |-> <<>>, a0 |-> 0, batches |-> <<>>,
     error |-> [bound |-> FALSE, v |-> Zero]]

Working ==
    [object |-> _object, probe |-> _probe, positions_px |-> _positions_px,
     positions_px_fractional |-> _positions_px_fractional,
     rows |-> _vectorized_patch_indices_row, exit_waves |-> _exit_waves]

\* what the history records of a call
NewHist(fresh, len0) ==
    [active |-> TRUE,
     entry |-> [working |-> Working, stored |-> Len(object_iterations)],
                             \* working state and list length when the call began
     iterations |-> 0,       \* iterations completed by this call
     batches |-> 0,          \* batches completed by this call
     fresh |-> fresh,        \* first storing run of the instance, or reset=True
     len0 |-> len0,          \* entries the history lists had when the loop began
     first |-> <<>>,         \* working state on entry to the first batch
     snapshots |-> <<>>,     \* (object, probe, error) at the end of each iteration
     orders |-> <<>>,        \* index order of each iteration
     batch_errors |-> <<>>,  \* forward errors of the batches of this iteration
     gates |-> <<>>,         \* gates of the batches of this iteration
     applied |-> <<>>,       \* constraints applied by the batches of this iteration
     processed |-> <<>>,     \* (amplitudes, position) processed in this iteration
     slices |-> <<>>,        \* (start, end) of the batches of this iteration
     cache |-> hist.cache,   \* the step that produced the cached exit waves: of a
                             \* projection method or not, on which measurements
     positions_out |->       \* per measurement, the position the last batch that
                             \* processed it in this call left in _positions_px
         [i \in 1.._num_diffraction_patterns |-> [set |-> FALSE, v |-> Zero]]]

\* the call up to the head of the main loop (lines 1327-1423)
Reconstruct(args) ==
    /\ pc = "idle"
    /\ ncalls < MaxCalls
    /\ ncalls' = ncalls + 1
    /\ fn' = fn
    /\ \E lk \in {method_lookup(args.reconstruction_method,
                                args.reconstruction_parameter, args.step_size)} :
       \E bt \in {batching(args.max_batch_size, lk.use_projection_scheme,
                           _num_diffraction_patterns)} :
       \E fresh \in {args.store_iterations
                     /\ ("object_iterations" \notin attrs \/ args.reset = "True")} :
       IF lk.exc # ""
       THEN /\ pc' = "raised"
            /\ frame' = [NewFrame(args) EXCEPT !.exc = lk.exc]
            /\ hist' = NewHist(fresh, Len(object_iterations))
            /\ UNCHANGED <<readonly, working, results, attrs>>
       ELSE IF bt.exc # ""
       THEN /\ pc' = "raised"
            /\ frame' = [NewFrame(args) EXCEPT
                            !.exc = bt.exc,
                            !.use_projection_scheme = lk.use_projection_scheme,
                            !.projection_a = lk.projection_a,
                            !.projection_b = lk.projection_b,
                            !.projection_c = lk.projection_c,
                            !.step_size = lk.step_size]
            /\ hist' = NewHist(fresh, Len(object_iterations))
            /\ UNCHANGED <<readonly, working, results, attrs>>
       ELSE /\ pc' = "loop"
            /\ frame' = [NewFrame(args) EXCEPT
                            !.use_projection_scheme = lk.use_projection_scheme,
                            !.projection_a = lk.projection_a,
                            !.projection_b = lk.projection_b,
                            !.projection_c = lk.projection_c,
                            !.step_size = lk.step_size,
                            !.max_batch_size = bt.max_batch_size,
                            !.shuffled_indices =
                                AsArray([i \in 1.._num_diffraction_patterns |-> i - 1])]
            /\ IF starts_lists(args.store_iterations, "object_iterations" \in attrs,
                               args.reset)
               THEN /\ object_iterations' = <<>>
                    /\ probe_iterations' = <<>>
                    /\ error_iterations' = <<>>
                    /\ attrs' = attrs \cup {"object_iterations", "probe_iterations",
                                            "error_iterations"}
               ELSE UNCHANGED <<object_iterations, probe_iterations, error_iterations,
                                attrs>>
            /\ hist' = NewHist(fresh, Len(object_iterations'))
            /\ \E w \in {initialization(args.reset, "error" \in attrs, Working,
                                        ReadOnly)} :
                  /\ _object' = w.object
                  /\ _probe' = w.probe
                  /\ _positions_px' = w.positions_px
                  /\ _positions_px_fractional' = w.positions_px_fractional
                  /\ _vectorized_patch_indices_row' = w.rows
                  /\ _exit_waves' = w.exit_waves
            /\ _probe_support_mask' =
                   probe_support_mask(Len(_probe),
                                      args.probe_support_relative_radius,
                                      args.probe_support_supergaussian_degree)
            /\ UNCHANGED <<readonly, object, probe, error>>

\* head of an iteration: the shuffle and the batch generator (lines 1427-1438)
IterationBegin ==
    /\ pc = "loop"
    /\ frame.a0 < frame.args.max_iter
    /\ \E order \in IF frame.max_batch_size < _num_diffraction_patterns
                    THEN Orders(_num_diffraction_patterns)
                    ELSE {frame.shuffled_indices} :
          /\ frame' = [frame EXCEPT
                          !.shuffled_indices = order,
                          !.batches = generate_batches(_num_diffraction_patterns,
                                                       frame.max_batch_size)]
          /\ hist' = [hist EXCEPT !.batch_errors = <<>>, !.gates = <<>>,
                                  !.applied = <<>>, !.processed = <<>>,
                                  !.slices = <<>>, !.orders = Append(@, order)]
    /\ pc' = "batch"
    /\ UNCHANGED <<readonly, working, results, attrs, ncalls, fn>>

\* the error the forward operator reports for the batch [start:end] in the
\* current state (recorded in the history)
ForwardError(start, end) ==
    LET positions_px == batch_slice(_positions_px_initial, frame.shuffled_indices,
                                    start, end)
        amplitudes == batch_slice(_amplitudes, frame.shuffled_indices, start, end)
    IN  forward(_object, _probe, amplitudes, _exit_waves,
                frame.use_projection_scheme, frame.projection_a, frame.projection_b,
                frame.projection_c,
                Map1(LAMBDA x : FSub(x, FRound(x)), positions_px),
                set_vectorized_patch_indices(positions_px, Len(_probe), Len(_object)),
                _mean_diffraction_intensity).error

\* variant: reset=True binds the working object to the retained snapshot
\* without copying it, and the batch updates both
Batch_updates_initial_object ==
    /\ pc = "batch"
    /\ frame.batches # <<>>
    /\ LET start == Head(frame.batches)[1]
           end == Head(frame.batches)[2]
           w == [object |-> _object, probe |-> _probe, exit_waves |-> _exit_waves,
                 probe_support_mask |-> _probe_support_mask]
       IN  \E r \in {batch_step(w, frame, ReadOnly, start, end)} :
           /\ _positions_px' = r.positions_px
           /\ _positions_px_fractional' = r.positions_px_fractional
           /\ _vectorized_patch_indices_row' = r.rows
           /\ _object' = r.object
           /\ _probe' = r.probe
           /\ _exit_waves' = r.exit_waves
           /\ IF r.exc # ""
              THEN /\ pc' = "raised"
                   /\ frame' = [frame EXCEPT !.exc = r.exc]
                   /\ hist' = hist
              ELSE /\ pc' = "batch"
                   /\ frame' = [frame EXCEPT !.batches = Tail(frame.batches),
                                             !.error = r.error]
                   /\ hist' = [hist EXCEPT
                          !.batches = @ + 1,
                          !.first = IF hist.batches = 0 THEN <<Working>> ELSE @,
                          !.batch_errors = Append(@, ForwardError(start, end)),
                          !.gates = @ \o r.gates,
                          !.applied = Append(@, r.applied),
                          !.slices = Append(@, <<start, end>>),
                          !.cache = [projection |-> frame.use_projection_scheme,
                                     indices |-> AsArray([j \in 1..(end - start) |->
                                                    frame.shuffled_indices[start + j]])],
                          !.processed = @ \o [j \in 1..Len(r.amplitudes) |->
                                                 <<r.amplitudes[j], r.positions_batch[j]>>],
                          !.positions_out =
                              [i \in 1.._num_diffraction_patterns |->
                                  IF \E j \in (start + 1)..end :
                                         frame.shuffled_indices[j] + 1 = i
                                  THEN [set |-> TRUE,
                                        v |-> r.positions_px[
                                                  (CHOOSE j \in (start + 1)..end :
                                                       frame.shuffled_indices[j] + 1 = i)
                                                  - start]]
                                  ELSE @[i]]]
    /\ _object_initial' = IF frame.args.reset = "True" THEN _object' ELSE _object_initial
    /\ UNCHANGED <<_amplitudes, _mean_diffraction_intensity, _probe_initial,
                   _positions_px_initial, _positions_px_com,
                   _probe_initial_fft_amplitude>>
    /\ UNCHANGED <<_probe_support_mask, results, attrs, ncalls, fn>>

\* one batch (lines 1440-1492)
Batch ==
    /\ pc = "batch"
    /\ frame.batches # <<>>
    /\ LET start == Head(frame.batches)[1]
           end == Head(frame.batches)[2]
           w == [object |-> _object, probe |-> _probe, exit_waves |-> _exit_waves,
                 probe_support_mask |-> _probe_support_mask]
       IN  \E r \in {batch_step(w, frame, ReadOnly, start, end)} :
           /\ _positions_px' = r.positions_px
           /\ _positions_px_fractional' = r.positions_px_fractional
           /\ _vectorized_patch_indices_row' = r.rows
           /\ _object' = r.object
           /\ _probe' = r.probe
           /\ _exit_waves' = r.exit_waves
           /\ IF r.exc # ""
              THEN /\ pc' = "raised"
                   /\ frame' = [frame EXCEPT !.exc = r.exc]
                   /\ hist' = hist
              ELSE /\ pc' = "batch"
                   /\ frame' = [frame EXCEPT !.batches = Tail(frame.batches),
                                             !.error = r.error]
                   /\ hist' = [hist EXCEPT
                          !.batches = @ + 1,
                          !.first = IF hist.batches = 0 THEN <<Working>> ELSE @,
                          !.batch_errors = Append(@, ForwardError(start, end)),
                          !.gates = @ \o r.gates,
                          !.applied = Append(@, r.applied),
                          !.slices = Append(@, <<start, end>>),
                          !.cache = [projection |-> frame.use_projection_scheme,
                                     indices |-> AsArray([j \in 1..(end - start) |->
                                                    frame.shuffled_indices[start + j]])],
                          !.processed = @ \o [j \in 1..Len(r.amplitudes) |->
                                                 <<r.amplitudes[j], r.positions_batch[j]>>],
                          !.positions_out =
                              [i \in 1.._num_diffraction_patterns |->
                                  IF \E j \in (start + 1)..end :
                                         frame.shuffled_indices[j] + 1 = i
                                  THEN [set |-> TRUE,
                                        v |-> r.positions_px[
                                                  (CHOOSE j \in (start + 1)..end :
                                                       frame.shuffled_indices[j] + 1 = i)
                                                  - start]]
                                  ELSE @[i]]]
    /\ UNCHANGED <<readonly, _probe_support_mask, results, attrs, ncalls, fn>>

\* end of an iteration (lines 1494-1497)
IterationEnd ==
    /\ pc = "batch"
    /\ frame.batches = <<>>
    /\ IF frame.args.store_iterations
       THEN /\ object_iterations' = Append(object_iterations, _object)
            /\ probe_iterations' = Append(probe_iterations, _probe)
            /\ error_iterations' = Append(error_iterations, frame.error.v)
       ELSE UNCHANGED <<object_iterations, probe_iterations, error_iterations>>
    /\ frame' = [frame EXCEPT !.a0 = @ + 1]
    /\ hist' = [hist EXCEPT !.iterations = @ + 1,
                            !.snapshots = Append(@, [object |-> _object, probe |-> _probe,
                                                     error |-> hist.batch_errors[Len(hist.batch_errors)]])]
    /\ pc' = "loop"
    /\ UNCHANGED <<readonly, working, object, probe, error, attrs, ncalls, fn>>

\* after the loop (lines 1499-1504); error.item() on an unbound local raises
StoreResult ==
    /\ pc = "loop"
    /\ frame.a0 >= frame.args.max_iter
    /\ object' = _object
    /\ probe' = _probe
    /\ IF frame.error.bound
       THEN /\ error' = frame.error.v
            /\ attrs' = attrs \cup {"object", "probe", "error"}
            /\ pc' = "returned"
            /\ frame' = frame
       ELSE /\ error' = error
            /\ attrs' = attrs \cup {"object", "probe"}
            /\ pc' = "raised"
            /\ frame' = [frame EXCEPT !.exc = "UnboundLocalError"]
    /\ UNCHANGED <<readonly, working, object_iterations, probe_iterations,
                   error_iterations, ncalls, hist, fn>>

\* the call is over and its locals are gone
Exit ==
    /\ pc \in {"returned", "raised"}
    /\ pc' = "idle"
    /\ frame' = NoFrame
    /\ hist' = [NoHist EXCEPT !.cache = hist.cache]
    /\ UNCHANGED <<readonly, working, results, attrs, ncalls, fn>>

\* --------------------------------------------------------------------------
\* Arguments of the calls
\* --------------------------------------------------------------------------

\* the defaults of reconstruct(); MaxIter + 1 stands for the thresholds np.inf
DefaultArgs ==
    [reset |-> "None", max_iter |-> 1, step_size |-> F(9, 10),
     normalization_min |-> F(1, 100), fix_com |-> TRUE, fix_probe_iter |-> 0,
     fix_positions_iter |-> MaxIter + 1,
     probe_support_relative_radius |-> FromInt(1000),
     probe_support_supergaussian_degree |-> 10,
     fix_probe_fourier_amplitude_iter |-> 0, pure_phase_object_iter |-> 0,
     gaussian_blur_sigma |-> None, gaussian_blur_iter |-> MaxIter + 1,
     store_iterations |-> FALSE, reconstruction_method |-> "gradient-descent",
     reconstruction_parameter |-> One, max_batch_size |-> None]

\* algorithm and batch size
Algorithms ==
    { [reconstruction_method |-> "gradient-descent", reconstruction_parameter |-> One,
       max_batch_size |-> None],
      [reconstruction_method |-> "GD", reconstruction_parameter |-> One,
       max_batch_size |-> 1],
      [reconstruction_method |-> "DM_AP", reconstruction_parameter |-> F(1, 2),
       max_batch_size |-> None],
      [reconstruction_method |-> "RAAR", reconstruction_parameter |-> F(1, 2),
       max_batch_size |-> None] }

WithAlgorithm(args, al) ==
    [args EXCEPT !.reconstruction_method = al.reconstruction_method,
                 !.reconstruction_parameter = al.reconstruction_parameter,
                 !.max_batch_size = al.max_batch_size]

\* calls of the main specification: valid configurations
CallArgs ==
    { WithAlgorithm([DefaultArgs EXCEPT !.reset = rs, !.max_iter = MaxIter,
                                        !.store_iterations = TRUE], al) :
        rs \in {"True", "None"},
        al \in { x \in Algorithms : x.max_batch_size = None } }
    \cup
    { WithAlgorithm([DefaultArgs EXCEPT !.max_iter = MaxIter,
                                        !.store_iterations = TRUE], al) :
        al \in { x \in Algorithms : x.max_batch_size # None } }
    \cup
    { WithAlgorithm([DefaultArgs EXCEPT !.max_iter = 1], al) : al \in Algorithms }
    \cup
    { [DefaultArgs EXCEPT !.reset = rs, !.max_iter = 0, !.store_iterations = TRUE] :
        rs \in {"True", "None", "False"} }
    \cup
    { [DefaultArgs EXCEPT !.reset = rs, !.max_iter = 1] : rs \in {"True", "False"} }

Next ==
    \/ \E args \in CallArgs : Reconstruct(args)
    \/ IterationBegin
    \/ Batch
    \/ IterationEnd
    \/ StoreResult
    \/ Exit

Spec == Init /\ [][Next]_vars


\* --------------------------------------------------------------------------
\* Configurations, valid and invalid: every call resets and stores
\* --------------------------------------------------------------------------

GradientDescentNames == {"GD", "gradient-descent"}
DifferenceMapNames == {"DM_AP", "difference-map_alternating-projections"}
RelaxedReflectionNames == {"RAAR", "relaxed-averaged-alternating-reflections"}
UnknownNames == {"gradient_descent", "ePIE"}

ConfigNames ==
    GradientDescentNames \cup DifferenceMapNames \cup RelaxedReflectionNames
        \cup UnknownNames

ConfigAlphas == {F(-1, 2), Zero, F(1, 2), One, F(3, 2)}

ConfigArgs ==
    { [DefaultArgs EXCEPT !.reset = "True", !.store_iterations = TRUE,
                          !.reconstruction_method = me,
                          !.reconstruction_parameter = al,
                          !.max_batch_size = mb] :
        me \in ConfigNames, al \in ConfigAlphas, mb \in {None, 1} }

NextConfig ==
    \/ \E args \in ConfigArgs : Reconstruct(args)
    \/ IterationBegin
    \/ Batch
    \/ IterationEnd
    \/ StoreResult
    \/ Exit

SpecConfig == Init /\ [][NextConfig]_vars

\* --------------------------------------------------------------------------
\* Thresholds of the gated operators: one batched gradient-descent call
\* --------------------------------------------------------------------------

GateArgs ==
    { [DefaultArgs EXCEPT !.max_iter = MaxIter, !.max_batch_size = 1,
                          !.reconstruction_method = "GD",
                          !.fix_probe_iter = fp, !.fix_positions_iter = fx,
                          !.pure_phase_object_iter = pp,
                          !.gaussian_blur_iter = gb, !.gaussian_blur_sigma = gs,
                          !.fix_probe_fourier_amplitude_iter = fa,
                          !.fix_com = fc] :
        fp \in {0, 1, MaxIter}, fx \in {0, 1, MaxIter + 1}, pp \in {0, 1},
        gb \in {0, 1, MaxIter + 1}, gs \in {None, 0}, fa \in {0, 1},
        fc \in BOOLEAN }

\* the first call of the instance
FirstCall(args) == ncalls = 0 /\ Reconstruct(args)

NextGates ==
    \/ \E args \in GateArgs : FirstCall(args)
    \/ IterationBegin
    \/ Batch
    \/ IterationEnd
    \/ StoreResult
    \/ Exit

SpecGates == Init /\ [][NextGates]_vars

\* --------------------------------------------------------------------------
\* Batch sizes: one gradient-descent call on three measurements
\* --------------------------------------------------------------------------

BatchArgs ==
    { [DefaultArgs EXCEPT !.max_iter = mi, !.max_batch_size = mb,
                          !.reconstruction_method = "GD"] :
        mi \in 1..MaxIter, mb \in {None, 1, 2, 3, 4} }

InitBatch ==
    /\ InitWith(BatchDataset[1], BatchDataset[2])
    /\ fn = NoCall

NextBatch ==
    \/ \E args \in BatchArgs : FirstCall(args)
    \/ IterationBegin
    \/ Batch
    \/ IterationEnd
    \/ StoreResult
    \/ Exit

SpecBatch == InitBatch /\ [][NextBatch]_vars

\* --------------------------------------------------------------------------
\* The two Fourier projections applied to given arrays
\* --------------------------------------------------------------------------

\* one measurement of two detector pixels
ProjAmplitudes == { <<<<FromInt(x), FromInt(y)>>>> : x, y \in {0, 1, 2} }
ProjOverlaps == { <<<<FromInt(x), FromInt(y)>>>> : x, y \in {-2, 0, 1} }
ProjPrevious ==
    { [state |-> "None", v |-> <<>>] }
    \cup { [state |-> "array", v |-> <<<<FromInt(x), FromInt(y)>>>>] : x, y \in {-1, 2} }

\* (a, b, c): the table of method_lookup, and values outside it
ProjCoefficients ==
    { <<lk.projection_a, lk.projection_b, lk.projection_c>> :
        lk \in { method_lookup(me, al, One) :
                   me \in {"DM_AP", "RAAR"}, al \in {Zero, F(1, 2), One} } }
    \cup { <<FromInt(2), FromInt(-1), FromInt(3)>>, <<F(1, 2), F(1, 2), F(1, 2)>> }

InitProj ==
    /\ \E ds \in Datasets : InitWith(ds[1], ds[2])
    /\ \E amps \in ProjAmplitudes, ov \in ProjOverlaps, prev \in ProjPrevious,
          abc \in ProjCoefficients :
          fn = [op |-> "args", amplitudes |-> amps, overlap |-> ov,
                exit_waves |-> prev, projection_a |-> abc[1],
                projection_b |-> abc[2], projection_c |-> abc[3],
                projection_sets |-> <<>>, gradient_descent |-> <<>>]

ApplyProjectionSets ==
    /\ fn.op # "none"
    /\ fn.projection_sets = <<>>
    /\ fn' = [fn EXCEPT !.op = "projection_sets",
                        !.projection_sets =
                            <<projection_sets_fourier_projection(
                                  fn.amplitudes, fn.overlap, fn.exit_waves,
                                  fn.projection_a, fn.projection_b, fn.projection_c,
                                  _mean_diffraction_intensity)>>]
    /\ UNCHANGED <<readonly, working, results, attrs, pc, frame, ncalls, hist>>

ApplyGradientDescent ==
    /\ fn.op # "none"
    /\ fn.gradient_descent = <<>>
    /\ fn' = [fn EXCEPT !.op = "gradient_descent",
                        !.gradient_descent =
                            <<gradient_descent_fourier_projection(
                                  fn.amplitudes, fn.overlap,
                                  _mean_diffraction_intensity)>>]
    /\ UNCHANGED <<readonly, working, results, attrs, pc, frame, ncalls, hist>>

NextProj ==
    \/ ApplyProjectionSets
    \/ ApplyGradientDescent

SpecProj == InitProj /\ [][NextProj]_vars

\* --------------------------------------------------------------------------
\* One forward and one adjoint step on chosen object, probe and amplitudes
\* --------------------------------------------------------------------------

UpdateObjects == { <<One, One>>, <<Zero, Zero>>, <<FromInt(1), FromInt(2)>> }
UpdateProbes == { <<FromInt(1), FromInt(2)>>, <<Zero, Zero>>, <<F(999, 100), F(123, 10000)>> }
\* one measurement, or two on the same pixels
UpdatePositions == { <<Zero>>, <<Zero, Zero>> }
UpdateStepSizes == { Zero, F(9, 10), FromInt(2) }
UpdateNormalizationMins == { Zero, F(1, 100), One }

\* algorithm of the step: gradient descent, or a projection method with its
\* reconstruction_parameter
UpdateAlgorithms ==
    { [reconstruction_method |-> "GD", reconstruction_parameter |-> One],
      [reconstruction_method |-> "DM_AP", reconstruction_parameter |-> One],
      [reconstruction_method |-> "DM_AP", reconstruction_parameter |-> Zero],
      [reconstruction_method |-> "RAAR", reconstruction_parameter |-> F(1, 2)] }

\* the measured amplitudes: those of the overlap itself ("overlap"), the same
\* for every measurement ("fixed"), or different ones per measurement ("mixed")
UpdateAmplitudes(current_object, current_probe, positions, kind) ==
    IF kind = "overlap"
    THEN BMap1(FAbs, BFft2(overlap_projection(current_object, current_probe,
                  Map1(LAMBDA x : FSub(x, FRound(x)), positions),
                  set_vectorized_patch_indices(positions, Len(current_probe),
                                               Len(current_object))).overlap))
    ELSE AsArray([i \in 1..Len(positions) |->
             IF kind = "mixed" /\ i = Len(positions)
             THEN <<FromInt(5), FromInt(0)>>
             ELSE <<FromInt(1), FromInt(2)>>])

InitUpdate ==
    /\ \E ds \in Datasets : InitWith(ds[1], ds[2])
    /\ \E ob \in UpdateObjects, pr \in UpdateProbes, pos \in UpdatePositions,
          kind \in {"overlap", "fixed", "mixed"}, al \in UpdateAlgorithms,
          st \in UpdateStepSizes, nm \in UpdateNormalizationMins, fp \in BOOLEAN :
          fn = [op |-> "update", object |-> ob, probe |-> pr, positions |-> pos,
                matched |-> (kind = "overlap"),
                amplitudes |-> UpdateAmplitudes(ob, pr, pos, kind),
                reconstruction_method |-> al.reconstruction_method,
                reconstruction_parameter |-> al.reconstruction_parameter,
                use_projection_scheme |->
                    method_lookup(al.reconstruction_method,
                                  al.reconstruction_parameter, st).use_projection_scheme,
                step_size |-> st,
                normalization_min |-> nm, fix_probe |-> fp,
                forward |-> <<>>, adjoint |-> <<>>]

\* _forward on the arguments of fn with an empty exit-wave cache, for the
\* given algorithm
UpdateForward(reconstruction_method, reconstruction_parameter) ==
    With(method_lookup(reconstruction_method, reconstruction_parameter, fn.step_size),
         LAMBDA lk :
    forward(fn.object, fn.probe, fn.amplitudes,
            [state |-> "None", v |-> NoArray],
            lk.use_projection_scheme,
            lk.projection_a, lk.projection_b, lk.projection_c,
            Map1(LAMBDA x : FSub(x, FRound(x)), fn.positions),
            set_vectorized_patch_indices(fn.positions, Len(fn.probe), Len(fn.object)),
            _mean_diffraction_intensity))

\* _adjoint on what _forward returned
UpdateAdjoint(fw, use_projection_scheme) ==
    adjoint(fn.object, fn.probe, fw.object_patches, fw.shifted_probes,
            fn.positions, fw.exit_waves, use_projection_scheme,
            fn.step_size, fn.normalization_min, fn.fix_probe, TRUE,
            set_vectorized_patch_indices(fn.positions, Len(fn.probe), Len(fn.object)))

ApplyForward ==
    /\ fn.op = "update"
    /\ fn.forward = <<>>
    /\ fn' = [fn EXCEPT !.forward =
                 <<UpdateForward(fn.reconstruction_method, fn.reconstruction_parameter)>>]
    /\ UNCHANGED <<readonly, working, results, attrs, pc, frame, ncalls, hist>>

ApplyAdjoint ==
    /\ fn.op = "update"
    /\ fn.forward # <<>>
    /\ fn.adjoint = <<>>
    /\ fn' = [fn EXCEPT !.adjoint =
                 <<UpdateAdjoint(fn.forward[1], fn.use_projection_scheme)>>]
    /\ UNCHANGED <<readonly, working, results, attrs, pc, frame, ncalls, hist>>

NextUpdate ==
    \/ ApplyForward
    \/ ApplyAdjoint

SpecUpdate == InitUpdate /\ [][NextUpdate]_vars

\* --------------------------------------------------------------------------
\* The position centre-of-mass constraint applied repeatedly
\* --------------------------------------------------------------------------

MaxApplications == 2

PositionValues == { Zero, One, F(101, 100), F(5, 2), F(304, 100) }
PositionArrays ==
    { <<x, y>> : x, y \in PositionValues }
    \cup { <<x, y, z>> : x, y, z \in PositionValues }
PositionReferences == { Zero, One, F(1, 2) }

\* probe of two pixels on an object of four
PositionsProbeSize == 2
PositionsObjectSize == 4

InitPositions ==
    /\ \E ds \in Datasets : InitWith(ds[1], ds[2])
    /\ \E pos \in PositionArrays, com \in PositionReferences :
          fn = [op |-> "positions", positions |-> pos, positions_px_com |-> com,
                applied |-> <<>>]

\* _positions_center_of_mass_constraint on the positions the previous
\* application returned
ApplyPositionsCenterOfMass ==
    /\ fn.op = "positions"
    /\ Len(fn.applied) < MaxApplications
    /\ \E cur \in {IF fn.applied = <<>> THEN fn.positions
                   ELSE fn.applied[Len(fn.applied)].positions} :
       fn' = [fn EXCEPT !.applied =
                 Append(@, positions_center_of_mass_constraint(
                               cur, fn.positions_px_com,
                               PositionsProbeSize, PositionsObjectSize))]
    /\ UNCHANGED <<readonly, working, results, attrs, pc, frame, ncalls, hist>>

NextPositions == ApplyPositionsCenterOfMass

SpecPositions == InitPositions /\ [][NextPositions]_vars

\* --------------------------------------------------------------------------
\* Projection-method calls that differ in step_size
\* --------------------------------------------------------------------------

StepArgs ==
    { [DefaultArgs EXCEPT !.reset = rs, !.max_iter = MaxIter, !.store_iterations = TRUE,
                          !.reconstruction_method = me,
                          !.reconstruction_parameter = F(1, 2),
                          !.step_size = st] :
        rs \in {"True", "None"}, me \in {"DM_AP", "RAAR"},
        st \in {F(9, 10), F(1, 2)} }

NextStep ==
    \/ \E args \in StepArgs : Reconstruct(args)
    \/ IterationBegin
    \/ Batch
    \/ IterationEnd
    \/ StoreResult
    \/ Exit

SpecStep == Init /\ [][NextStep]_vars

\* --------------------------------------------------------------------------
\* Calls with warm-up iterations of the probe
\* --------------------------------------------------------------------------

\* probe_support_relative_radius 1 is the default of reconstruct()
WarmupArgs ==
    { WithAlgorithm([DefaultArgs EXCEPT !.max_iter = MaxIter,
                                        !.fix_probe_iter = fp,
                                        !.fix_probe_fourier_amplitude_iter = fa,
                                        !.fix_com = fc,
                                        !.probe_support_relative_radius = rr], al) :
        fp \in {1, MaxIter}, fa \in {0, 1}, fc \in BOOLEAN,
        rr \in {FromInt(1000), One}, al \in Algorithms }

NextWarmup ==
    \/ \E args \in WarmupArgs : Reconstruct(args)
    \/ IterationBegin
    \/ Batch
    \/ IterationEnd
    \/ StoreResult
    \/ Exit

SpecWarmup == Init /\ [][NextWarmup]_vars

\* --------------------------------------------------------------------------
\* Projection-method calls over the range of reconstruction_parameter
\* --------------------------------------------------------------------------

\* reconstruction_parameter 1 is the default of reconstruct()
AlphaArgs ==
    { [DefaultArgs EXCEPT !.reset = rs, !.max_iter = MaxIter, !.store_iterations = TRUE,
                          !.reconstruction_method = me,
                          !.reconstruction_parameter = al] :
        rs \in {"True", "None"}, me \in {"DM_AP", "RAAR"},
        al \in {Zero, F(1, 2), F(9, 10), One} }

NextAlpha ==
    \/ \E args \in AlphaArgs : Reconstruct(args)
    \/ IterationBegin
    \/ Batch
    \/ IterationEnd
    \/ StoreResult
    \/ Exit

SpecAlpha == Init /\ [][NextAlpha]_vars

\* --------------------------------------------------------------------------
\* Properties
\* --------------------------------------------------------------------------

KnownNames == GradientDescentNames \cup DifferenceMapNames \cup RelaxedReflectionNames

InvalidConfiguration(args) ==
    \/ FLt(args.reconstruction_parameter, Zero)
    \/ FLt(One, args.reconstruction_parameter)
    \/ args.reconstruction_method \notin KnownNames
    \/ /\ args.reconstruction_method \in DifferenceMapNames \cup RelaxedReflectionNames
       /\ args.max_batch_size # None

\* C1: a call whose reconstruction_parameter is outside [0, 1], whose method
\* name is unknown, or that combines a projection method with max_batch_size
\* raises ValueError before any iteration runs and leaves every attribute of
\* the instance as it was, also when reset=True and store_iterations=True.
C1_InvalidConfigurationLeavesStateUnchanged ==
    [][(pc = "idle" /\ pc' # "idle" /\ InvalidConfiguration(frame'.args))
         => /\ pc' = "raised"
            /\ frame'.exc = "ValueError"
            /\ hist'.iterations = 0
            /\ hist'.batches = 0
            /\ UNCHANGED <<readonly, working, results, attrs>>]_vars

\* an invalid call with reset=True and store_iterations=True has raised on an
\* instance whose earlier run left results, stored iterations and exit waves
C1_Witness ==
    /\ pc = "raised"
    /\ frame.exc = "ValueError"
    /\ frame.args.reset = "True"
    /\ frame.args.store_iterations
    /\ frame.args.reconstruction_method \in DifferenceMapNames
    /\ frame.args.max_batch_size # None
    /\ "error" \in attrs
    /\ Len(object_iterations) = 1
    /\ _exit_waves.state = "array"
    /\ _object # _object_initial

C3_ReturnsAfterMaxIterIterations ==
    (pc \in {"returned", "raised"} /\ ~InvalidConfiguration(frame.args))
      => /\ pc = "returned"
         /\ hist.iterations = frame.args.max_iter
         /\ {"object", "probe", "error"} \subseteq attrs
         /\ object = _object
         /\ probe = _probe
         /\ error = frame.error.v

\* the result of max_iter full-batch iterations run from the working state w
RECURSIVE FreshIterations(_, _, _, _)
FreshIterations(w, fr, d, k) ==
    IF k = fr.args.max_iter
    THEN [object |-> w.object, probe |-> w.probe, error |-> fr.error.v,
          exit_waves |-> w.exit_waves]
    ELSE With(batch_step(w, [fr EXCEPT !.a0 = k], d, 0, Len(d.amplitudes)),
              LAMBDA r :
              FreshIterations([w EXCEPT !.object = r.object, !.probe = r.probe,
                                        !.exit_waves = r.exit_waves],
                              [fr EXCEPT !.error = r.error], d, k + 1))

\* what a new instance holding the same data computes for the call fr
FreshRun(fr, d) ==
    FreshIterations(
        [object |-> d.object_initial, probe |-> d.probe_initial,
         exit_waves |-> [state |-> "None", v |-> <<>>],
         probe_support_mask |->
             probe_support_mask(Len(d.probe_initial),
                                fr.args.probe_support_relative_radius,
                                fr.args.probe_support_supergaussian_degree)],
        [fr EXCEPT !.error = [bound |-> FALSE, v |-> Zero],
                   !.shuffled_indices = AsArray([i \in 1..Len(d.amplitudes) |-> i - 1])],
        d, 0)

\* C4: whatever reconstruct calls came before, a full-batch call with
\* reset=True enters its first batch with the object, probe and positions of
\* the _initial snapshots and the exit-wave cache None, and ends with the
\* object, probe and error a new instance computes for the same arguments.
C4_ResetEqualsFreshInstance ==
    (hist.active /\ frame.args.reset = "True"
        /\ ~(frame.max_batch_size < _num_diffraction_patterns))
      => /\ hist.first # <<>> =>
               /\ hist.first[1].object = _object_initial
               /\ hist.first[1].probe = _probe_initial
               /\ hist.first[1].positions_px = _positions_px_initial
               /\ hist.first[1].exit_waves = [state |-> "None", v |-> <<>>]
         /\ pc = "returned" =>
               \E f \in {FreshRun(frame, ReadOnly)} :
                   /\ _object = f.object
                   /\ _probe = f.probe
                   /\ object = f.object
                   /\ probe = f.probe
                   /\ error = f.error

\* a projection run with reset=True has returned on an instance whose earlier
\* run had moved the object and left exit waves in the cache
C4_Witness ==
    /\ pc = "returned"
    /\ frame.args.reset = "True"
    /\ frame.use_projection_scheme
    /\ frame.args.max_iter = MaxIter
    /\ ncalls = MaxCalls
    /\ hist.entry.working.object # _object_initial
    /\ hist.entry.working.exit_waves.state = "array"
    /\ _object # _object_initial

\* C5: the error recorded for an iteration is the forward error of the last
\* batch processed in it, not a mean or a sum over its batches.
C5_ErrorIsLastBatchError ==
    /\ (pc = "batch" /\ hist.batch_errors # <<>>)
          => frame.error.v = hist.batch_errors[Len(hist.batch_errors)]
    /\ (pc = "loop" /\ hist.iterations > 0)
          => /\ frame.error.v = hist.batch_errors[Len(hist.batch_errors)]
             /\ frame.args.store_iterations
                   => error_iterations[Len(error_iterations)]
                          = hist.batch_errors[Len(hist.batch_errors)]
    /\ pc = "returned" => error = hist.batch_errors[Len(hist.batch_errors)]

\* a run of two batches per iteration has returned; the two batch errors of
\* its last iteration differ and the stored error is the second, not their mean
C5_Witness ==
    /\ pc = "returned"
    /\ Len(hist.batch_errors) = 2
    /\ hist.batch_errors[1] # hist.batch_errors[2]
    /\ hist.batch_errors[1] # Zero
    /\ error = hist.batch_errors[2]
    /\ error # FDiv(FAdd(hist.batch_errors[1], hist.batch_errors[2]), FromInt(2))

\* C6: with store_iterations=True every completed iteration appends exactly
\* one entry to each of the three history lists, so the three lists have the
\* same length in every state; after a run that started the lists afresh
\* (the first storing run, or reset=True) each list has max_iter entries and
\* entry i is the object, probe and error at the end of iteration i.
C6_HistoryLists ==
    /\ Len(object_iterations) = Len(probe_iterations)
    /\ Len(probe_iterations) = Len(error_iterations)
    /\ hist.active =>
          /\ Len(object_iterations)
                = hist.len0 + (IF frame.args.store_iterations THEN hist.iterations ELSE 0)
          /\ hist.fresh => hist.len0 = 0
          /\ (frame.args.store_iterations /\ hist.fresh) =>
                \A i \in 1..hist.iterations :
                    /\ object_iterations[i] = hist.snapshots[i].object
                    /\ probe_iterations[i] = hist.snapshots[i].probe
                    /\ error_iterations[i] = hist.snapshots[i].error
          /\ (pc = "returned" /\ frame.args.store_iterations /\ hist.fresh) =>
                Len(object_iterations) = frame.args.max_iter

\* a storing run with reset=True has returned on an instance whose lists held
\* the entries of an earlier storing run: the lists hold this run's
\* iterations only, and the iterations differ from one another
C6_Witness ==
    /\ pc = "returned"
    /\ frame.args.store_iterations
    /\ frame.args.reset = "True"
    /\ hist.entry.stored = MaxIter
    /\ Len(object_iterations) = MaxIter
    /\ MaxIter >= 2
    /\ object_iterations[1] # object_iterations[2]
    /\ error_iterations[1] # error_iterations[2]

Count(x, xs) == Cardinality({ j \in 1..Len(xs) : xs[j] = x })

Measurement(i) == <<_amplitudes[i], _positions_px_initial[i]>>

\* C8: in every iteration the index order is a permutation of 0..N-1, the
\* identity unless max_batch_size < N; the batches are contiguous slices of
\* it, of at most max_batch_size indices, that cover it exactly, so every
\* measurement is processed exactly once per iteration.
C8_EachMeasurementOncePerIteration ==
    pc = "batch" =>
        LET N == _num_diffraction_patterns
            order == frame.shuffled_indices
            slices == hist.slices
            processed == hist.processed
        IN  /\ Len(order) = N
            /\ \A i \in 0..(N - 1) : \E j \in 1..N : order[j] = i
            /\ ~(frame.max_batch_size < N) => \A j \in 1..N : order[j] = j - 1
            /\ \A k \in 1..Len(slices) :
                  /\ slices[k][1] = (IF k = 1 THEN 0 ELSE slices[k - 1][2])
                  /\ slices[k][1] < slices[k][2]
                  /\ slices[k][2] - slices[k][1] <= frame.max_batch_size
                  /\ slices[k][2] <= N
            /\ Len(processed) = (IF slices = <<>> THEN 0 ELSE slices[Len(slices)][2])
            /\ \A j \in 1..Len(processed) : processed[j] = Measurement(order[j] + 1)
            /\ frame.batches = <<>> =>
                  /\ Len(processed) = N
                  /\ \A i \in 1..N : Count(Measurement(i), processed) = 1

\* the second iteration of a run with batches of two has processed its three
\* measurements in two slices, in an order that is neither the identity nor
\* the order of the first iteration
C8_Witness ==
    /\ pc = "batch"
    /\ frame.batches = <<>>
    /\ frame.a0 = 1
    /\ hist.slices = <<<<0, 2>>, <<2, 3>>>>
    /\ hist.orders[1] # hist.orders[2]
    /\ frame.shuffled_indices = <<2, 0, 1>>
    /\ hist.processed = <<Measurement(3), Measurement(1), Measurement(2)>>

\* the array P(w): the Fourier transform of w with its magnitude replaced by
\* the measured amplitudes, transformed back
MagnitudeProjection(amplitudes, w) ==
    BIfft2(BMul(amplitudes, BMap1(PhaseFactor, BFft2(w))))

\* C9: the projection-sets Fourier projection returns
\* x prev + a overlap + b P(c overlap + y prev) with x = 1 - a - b and
\* y = 1 - c, for any (a, b, c), overlap and previous exit waves; previous
\* exit waves of None stand for a copy of the overlap.
C9_ProjectionSetsFormula ==
    fn.op = "projection_sets" =>
        LET a == fn.projection_a
            b == fn.projection_b
            c == fn.projection_c
            x == FSub(FSub(FromInt(1), a), b)
            y == FSub(FromInt(1), c)
            prev == IF fn.exit_waves.state = "None" THEN fn.overlap
                    ELSE fn.exit_waves.v
        IN  fn.projection_sets[1].exit_waves
              = BAdd(BAdd(BScale(x, prev), BScale(a, fn.overlap)),
                     BScale(b, MagnitudeProjection(fn.amplitudes,
                                   BAdd(BScale(c, fn.overlap), BScale(y, prev)))))

\* the projection has been applied with the difference-map coefficients of
\* alpha = 1/2 (x = 1/2, y = -1/2) to previous exit waves that differ from the
\* overlap, and its result is neither of the two
C9_Witness ==
    /\ fn.op = "projection_sets"
    /\ fn.projection_a = [m |-> -5, e |-> -1]
    /\ fn.projection_b = [m |-> 1, e |-> 0]
    /\ fn.projection_c = [m |-> 15, e |-> -1]
    /\ fn.exit_waves.state = "array"
    /\ fn.exit_waves.v # fn.overlap
    /\ fn.projection_sets[1].exit_waves # fn.overlap
    /\ fn.projection_sets[1].exit_waves # fn.exit_waves.v

RoundTripTolerance == FDiv(FromInt(100), FromInt(10 ^ Digits))

AllZero(xss) == \A i \in 1..Len(xss) : \A k \in 1..Len(xss[i]) : xss[i][k] = Zero

\* the overlap _forward formed
ForwardOverlap(fw) == BMul(fw.shifted_probes, fw.object_patches)

\* C11 as stated: when the Fourier amplitude of the overlap equals the measured
\* amplitudes, the gradient-descent projection returns a difference that is
\* zero everywhere and an error of 0, and the gradient-descent adjoint leaves
\* object and probe unchanged for any step_size.
C11_FixedPointExactlyZero ==
    (fn.op = "update" /\ fn.matched /\ ~fn.use_projection_scheme /\ fn.adjoint # <<>>)
      => /\ AllZero(fn.forward[1].exit_waves)
         /\ fn.forward[1].error = Zero
         /\ fn.adjoint[1].object = fn.object
         /\ fn.adjoint[1].probe = fn.probe

\* C11: when the Fourier amplitude of the overlap equals the measured
\* amplitudes, the gradient-descent projection returns error 0 and a
\* difference that is zero up to the rounding of the transform round trip
\* (each entry at most RoundTripTolerance times the largest overlap entry);
\* whenever that difference is exactly zero the gradient-descent adjoint
\* leaves object and probe unchanged for any step_size.
C11_FixedPointUpToRounding ==
    (fn.op = "update" /\ fn.matched /\ ~fn.use_projection_scheme /\ fn.forward # <<>>)
      => LET fw == fn.forward[1]
             bound == FMul(RoundTripTolerance,
                           FMaxOf(Flatten(BMap1(FAbs, ForwardOverlap(fw)))))
         IN  /\ fw.error = Zero
             /\ \A i \in 1..Len(fw.exit_waves) : \A k \in 1..Len(fw.exit_waves[i]) :
                    /\ IsFinite(fw.exit_waves[i][k])
                    /\ ~FLt(bound, FAbs(fw.exit_waves[i][k]))
             /\ (fn.adjoint # <<>> /\ AllZero(fw.exit_waves))
                  => /\ fn.adjoint[1].object = fn.object
                     /\ fn.adjoint[1].probe = fn.probe

\* two measurements of a non-zero overlap whose amplitudes match: the
\* difference is zero, and the adjoint with step_size 2 and the probe free
\* has returned the object and the probe it was given
C11_Witness ==
    /\ fn.op = "update"
    /\ fn.matched
    /\ ~fn.use_projection_scheme
    /\ fn.adjoint # <<>>
    /\ fn.object = <<FromInt(1), FromInt(2)>>
    /\ fn.probe = <<FromInt(1), FromInt(2)>>
    /\ Len(fn.positions) = 2
    /\ fn.step_size = FromInt(2)
    /\ ~fn.fix_probe
    /\ ForwardOverlap(fn.forward[1]) = <<<<FromInt(1), FromInt(4)>>, <<FromInt(1), FromInt(4)>>>>
    /\ AllZero(fn.forward[1].exit_waves)
    /\ fn.adjoint[1].object = fn.object
    /\ fn.adjoint[1].probe = fn.probe

\* mean(|amplitudes - |FFT(overlap)||^2) / mean diffraction intensity
AmplitudeResidual(amplitudes, overlap, mean_diffraction_intensity) ==
    FDiv(BMean(BMap1(FSquare, BMap1(FAbs, BSub(amplitudes, BMap1(FAbs, BFft2(overlap)))))),
         mean_diffraction_intensity)

\* C12: for the same amplitudes and overlap both Fourier projections return
\* the same error, the amplitude residual of the overlap; the projection-sets
\* error is that value for every previous exit wave and every (a, b, c).
C12_ErrorIsOverlapResidual ==
    /\ (fn.op # "none" /\ fn.op # "update" /\ fn.projection_sets # <<>>)
         => fn.projection_sets[1].error
              = AmplitudeResidual(fn.amplitudes, fn.overlap, _mean_diffraction_intensity)
    /\ (fn.op # "none" /\ fn.op # "update" /\ fn.gradient_descent # <<>>)
         => fn.gradient_descent[1].error
              = AmplitudeResidual(fn.amplitudes, fn.overlap, _mean_diffraction_intensity)
    /\ (fn.op # "none" /\ fn.op # "update" /\ fn.projection_sets # <<>>
          /\ fn.gradient_descent # <<>>)
         => fn.projection_sets[1].error = fn.gradient_descent[1].error

\* both projections have run on an overlap that misses the amplitudes, with a
\* previous exit wave that differs from the overlap and RAAR coefficients at
\* alpha = 1/2: the two errors are the same non-zero number
C12_Witness ==
    /\ fn.op \in {"projection_sets", "gradient_descent"}
    /\ fn.projection_sets # <<>>
    /\ fn.gradient_descent # <<>>
    /\ fn.exit_waves.state = "array"
    /\ fn.exit_waves.v # fn.overlap
    /\ fn.overlap = <<<<FromInt(-2), FromInt(1)>>>>
    /\ fn.amplitudes = <<<<FromInt(2), FromInt(1)>>>>
    /\ <<fn.projection_a, fn.projection_b, fn.projection_c>> = <<Zero, F(1, 2), FromInt(2)>>
    /\ fn.projection_sets[1].error # Zero
    /\ fn.projection_sets[1].error = fn.gradient_descent[1].error

AllFinite(xs) == \A k \in 1..Len(xs) : IsFinite(xs[k])

\* C13: for normalization_min in [0, 1] the adjoint of either strategy
\* returns an object and a probe that are finite at every pixel, a batch whose
\* probe or whose object patches are zero everywhere included.
C13_UpdatesAreFinite ==
    (fn.op = "update" /\ fn.adjoint # <<>>)
      => /\ AllFinite(fn.adjoint[1].object)
         /\ AllFinite(fn.adjoint[1].probe)

\* C14 as stated: the second application of the position centre-of-mass
\* constraint returns the positions, fractional offsets and patch indices of
\* the first.
C14_SecondApplicationChangesNothing ==
    (fn.op = "positions" /\ Len(fn.applied) >= 2)
      => fn.applied[2] = fn.applied[1]

\* C14: the second application of the position centre-of-mass constraint
\* moves no position by more than the rounding of the mean (RoundTripTolerance
\* times the largest of the given positions and the reference), and returns the
\* positions, fractional offsets and patch indices of the first whenever the
\* mean of the once-corrected positions is exactly the reference.
C14_IdempotentUpToRounding ==
    (fn.op = "positions" /\ Len(fn.applied) >= 2)
      => LET once == fn.applied[1]
             twice == fn.applied[2]
             bound == FMul(RoundTripTolerance,
                           FMaxOf(<<FAbs(fn.positions_px_com)>>
                                  \o Map1(FAbs, fn.positions)))
         IN  /\ Len(twice.positions) = Len(once.positions)
             /\ \A i \in 1..Len(once.positions) :
                    ~FLt(bound, FAbs(FSub(twice.positions[i], once.positions[i])))
             /\ FMean(once.positions) = fn.positions_px_com => twice = once

\* two positions whose mean is not the reference one: the first application
\* moved them so that their mean is exactly one, and the second returned the
\* same positions, offsets and indices
C14_Witness ==
    /\ fn.op = "positions"
    /\ Len(fn.applied) = 2
    /\ fn.positions = <<Zero, F(5, 2)>>
    /\ fn.positions_px_com = One
    /\ fn.applied[1].positions # fn.positions
    /\ FMean(fn.applied[1].positions) = One
    /\ fn.applied[2] = fn.applied[1]

\* the positions the forward model of the k-th batch of this iteration read
ForwardPositions(k) ==
    AsArray([j \in 1..(hist.slices[k][2] - hist.slices[k][1]) |->
                hist.processed[hist.slices[k][1] + j][2]])

\* C15: whenever the position centre-of-mass constraint is active
\* (a0 >= fix_positions_iter) the mean of the positions the loop holds is
\* _positions_px_com where they are read: at the forward model of every batch
\* and when the run has returned, with batching as well.
C15_PositionsMeanIsReference ==
    /\ pc = "batch"
         => \A k \in 1..Len(hist.slices) :
                ~hist.gates[k].fix_positions
                  => FMean(ForwardPositions(k)) = _positions_px_com
    /\ (pc = "returned" /\ frame.args.max_iter >= 1
          /\ frame.args.max_iter - 1 >= frame.args.fix_positions_iter)
         => FMean(_positions_px) = _positions_px_com

\* every entry of the index array rows lies in [0, P-1]
WithinObject(rows, P) ==
    \A i \in 1..Len(rows) : \A s \in 1..Len(rows[i]) : rows[i][s] \in 0..(P - 1)

RelaxedReflectionOffConstraint ==
    /\ fn.op = "update"
    /\ fn.reconstruction_method = "RAAR"
    /\ fn.reconstruction_parameter = F(1, 2)
    /\ fn.forward # <<>>
    /\ fn.amplitudes # BMap1(FAbs, BFft2(ForwardOverlap(fn.forward[1])))

RerunWithStepSize(step_size) ==
    FreshIterations(
        [object |-> hist.first[1].object, probe |-> hist.first[1].probe,
         exit_waves |-> hist.first[1].exit_waves,
         probe_support_mask |-> _probe_support_mask],
        [frame EXCEPT !.args.step_size = step_size,
                      !.args.max_iter = hist.iterations,
                      !.step_size = method_lookup(frame.args.reconstruction_method,
                                                  frame.args.reconstruction_parameter,
                                                  step_size).step_size,
                      !.error = [bound |-> FALSE, v |-> Zero]],
        ReadOnly, 0)

\* C18: with DM_AP or RAAR the step_size argument is without effect: at the
\* end of every iteration and at the return of the call, object, probe and
\* error are those of the same call made with another step_size.
C18_StepSizeUnusedByProjection ==
    (hist.active /\ pc \in {"loop", "returned"} /\ hist.iterations >= 1
        /\ frame.use_projection_scheme)
      => \A step_size \in {F(1, 2), FromInt(2)} :
            \E r \in {RerunWithStepSize(step_size)} :
                /\ _object = r.object
                /\ _probe = r.probe
                /\ frame.error.v = r.error
                /\ pc = "returned" => (object = r.object /\ probe = r.probe /\ error = r.error)

\* a RAAR call with step_size 0.9 has returned after two iterations that
\* moved the object; the same call with step_size 2 gives the same object
C18_Witness ==
    /\ hist.active
    /\ pc = "returned"
    /\ frame.args.reconstruction_method = "RAAR"
    /\ frame.args.step_size = F(9, 10)
    /\ hist.iterations = 2
    /\ object # _object_initial
    /\ object = RerunWithStepSize(FromInt(2)).object

\* C19: when a reconstruct call has returned, with or without batching, the
\* positions held by the instance (the array the positions property scales and
\* returns) are N coordinates, one per measurement in measurement order: with
\* the positions held fixed throughout, the initial positions.
C19_PositionsOnePerMeasurement ==
    pc = "returned"
      => /\ Len(_positions_px) = _num_diffraction_patterns
         /\ frame.args.fix_positions_iter >= frame.args.max_iter
              => _positions_px = _positions_px_initial

\* C20: in every iteration a0 < fix_probe_iter, for either algorithm family
\* and any constraint settings, a batch leaves the probe as it found it.
C20_ProbeFixedDuringWarmup ==
    [][(pc = "batch" /\ frame.a0 < frame.args.fix_probe_iter) => _probe' = _probe]_vars

\* the order in which _constraints calls the constraints
PipelineOrder ==
    <<"object_smoothness", "object_threshold", "probe_fourier_amplitude",
      "probe_finite_support", "probe_center_of_mass", "positions_center_of_mass">>

\* the constraints a batch with gates g has enabled
EnabledConstraints(g) ==
    {"object_threshold", "probe_finite_support"}
        \cup (IF g.gaussian_sigma # None THEN {"object_smoothness"} ELSE {})
        \cup (IF g.fix_probe_fourier_amplitude THEN {"probe_fourier_amplitude"} ELSE {})
        \cup (IF g.fix_com THEN {"probe_center_of_mass"} ELSE {})
        \cup (IF ~g.fix_positions THEN {"positions_center_of_mass"} ELSE {})

\* C21: the constraint pipeline runs once after the adjoint of every batch,
\* not once per iteration, and applies the enabled constraints, each once, in
\* the order object smoothing, object threshold, probe Fourier-amplitude lock,
\* probe finite support, probe centre of mass, position centre of mass.
C21_PipelineOncePerBatchInFixedOrder ==
    pc = "batch" =>
        /\ Len(hist.applied) = Len(hist.slices)
        /\ Len(hist.gates) = Len(hist.slices)
        /\ \A k \in 1..Len(hist.applied) :
              hist.applied[k]
                  = SelectSeq(PipelineOrder,
                              LAMBDA c : c \in EnabledConstraints(hist.gates[k]))

\* both batches of iteration 0 have run the pipeline with all six constraints
\* enabled
C21_Witness ==
    /\ pc = "batch"
    /\ frame.a0 = 0
    /\ Len(hist.slices) = 2
    /\ hist.applied = <<PipelineOrder, PipelineOrder>>

\* C22: scan positions carry forward: the position the position constraints
\* left for measurement i in one batch is the position the forward model uses
\* for measurement i the next time a batch of the same call processes it.
C22_PositionsCarryForward ==
    [][(pc = "batch" /\ pc' = "batch" /\ hist'.batches = hist.batches + 1)
          => \A j \in (Len(hist.processed) + 1)..Len(hist'.processed) :
                LET i == frame.shuffled_indices[j] + 1
                IN  hist.positions_out[i].set
                        => hist'.processed[j][2] = hist.positions_out[i].v]_vars

\* contents the exit-wave cache can have when a batch begins: None, one
\* cached wave, the waves of two measurements
ExitWaveCaches ==
    { [state |-> "None", v |-> <<>>],
      [state |-> "array", v |-> <<<<One>>>>],
      [state |-> "array", v |-> <<<<FromInt(2)>>, <<F(-1, 2)>>>>] }

\* the batch at the head of frame.batches run from the current object and
\* probe with the given exit-wave cache
BatchWithCache(cache) ==
    batch_step([object |-> _object, probe |-> _probe, exit_waves |-> cache,
                probe_support_mask |-> _probe_support_mask],
               frame, ReadOnly, Head(frame.batches)[1], Head(frame.batches)[2])

\* C23: gradient descent does not depend on the exit-wave cache: a batch of a
\* gradient-descent call leaves the object, probe and error that the same
\* batch leaves from the same object, probe, positions and amplitudes with
\* any other cache, None or an array.
C23_GradientDescentIgnoresCache ==
    [][(pc = "batch" /\ pc' = "batch" /\ hist'.batches = hist.batches + 1
          /\ ~frame.use_projection_scheme)
          => \A cache \in ExitWaveCaches :
                \E r \in {BatchWithCache(cache)} :
                    /\ _object' = r.object
                    /\ _probe' = r.probe
                    /\ frame'.error = r.error]_vars

\* a gradient-descent call that found the exit waves of an earlier call in
\* the cache has run a batch that moved the object
C23_Witness ==
    /\ pc = "batch"
    /\ ~frame.use_projection_scheme
    /\ hist.batches >= 1
    /\ hist.first[1].exit_waves.state = "array"
    /\ hist.first[1].exit_waves.v # <<<<Zero>>, <<Zero>>>>
    /\ _object # hist.first[1].object
    /\ AllFinite(_object)

\* C24: every constraint of the pipeline is a pure function of its input:
\* it changes no stored reconstruction state, so after the pipeline of a batch
\* the stored fractional offsets and patch indices are those the head of the
\* batch assigned from the positions the forward model read.
C24_ConstraintsLeaveStoredStateAlone ==
    (pc = "batch" /\ hist.slices # <<>>)
      => \E used \in {ForwardPositions(Len(hist.slices))} :
            /\ _positions_px_fractional = Map1(LAMBDA x : FSub(x, FRound(x)), used)
            /\ _vectorized_patch_indices_row
                   = set_vectorized_patch_indices(used, Len(_probe), Len(_object))

\* |x| <= 1, false for nan as every comparison with nan
AtMostOne(x) == FAbs(x) = One \/ FLt(FAbs(x), One)

\* C25: after every batch, hence in every stored snapshot and in the output
\* of a run of at least one iteration, every pixel of the object has amplitude
\* at most 1, and exactly 1 in an iteration a0 < pure_phase_object_iter; the
\* threshold constraint leaves the phase of every pixel as it is and a second
\* application returns the object of the first.
C25_ObjectAmplitudeAtMostOne ==
    (hist.active /\ hist.batches >= 1 /\ pc \in {"batch", "loop", "returned"})
      => /\ \A k \in 1..Len(_object) : AtMostOne(_object[k])
         /\ (pc = "batch" /\ hist.gates # <<>>
                 /\ hist.gates[Len(hist.gates)].pure_phase_object)
              => \A k \in 1..Len(_object) : FAbs(_object[k]) = One
         /\ \A j \in (hist.len0 + 1)..Len(object_iterations) :
                \A k \in 1..Len(object_iterations[j]) :
                    AtMostOne(object_iterations[j][k])
         /\ pc = "returned" => \A k \in 1..Len(object) : AtMostOne(object[k])
         /\ \A b \in BOOLEAN :
               \E o \in {object_threshold_constraint(_object, b)} :
                   /\ Map1(PhaseFactor, o) = Map1(PhaseFactor, _object)
                   /\ object_threshold_constraint(o, b) = o

\* C26: no sequence of reconstruct calls changes what preprocess() left for
\* the loop to read: the retained snapshots of object, probe and positions,
\* the Fourier amplitude of the initial probe, the amplitudes, the mean
\* diffraction intensity and the reference centre of mass of the positions.
C26_ReadOnlyInputsKept ==
    \E ds \in Datasets :
        \E pp \in {Preprocess(ds[1], ds[2], ProbeGuess, ObjectPadding)} :
            /\ _amplitudes = pp.amplitudes
            /\ _mean_diffraction_intensity = pp.mean_diffraction_intensity
            /\ _object_initial = pp.object
            /\ _probe_initial = pp.probe
            /\ _positions_px_initial = pp.positions_px
            /\ _positions_px_com = pp.positions_px_com
            /\ _probe_initial_fft_amplitude = pp.probe_initial_fft_amplitude

\* the last call, one with reset=True, has returned with an object and a
\* probe that are not the retained snapshots
C26_Witness ==
    /\ pc = "returned"
    /\ ncalls = MaxCalls
    /\ frame.args.reset = "True"
    /\ hist.batches >= 2
    /\ \A k \in 1..Len(_object) : _object[k] # _object_initial[k]
    /\ _probe # _probe_initial
    /\ C26_ReadOnlyInputsKept

\* C27: in and after a reconstruct(reset=True) call, whatever its
\* store_iterations, the history lists hold snapshots of iterations run since
\* that reset only: during the call they hold one entry per iteration it has
\* completed if it stores and none if it does not.
C27_HistoryOnlySinceReset ==
    (hist.active /\ pc \in {"loop", "batch", "returned"} /\ frame.args.reset = "True")
      => \E stored \in {IF frame.args.store_iterations THEN hist.iterations ELSE 0} :
            /\ Len(object_iterations) = stored
            /\ Len(probe_iterations) = stored
            /\ Len(error_iterations) = stored
            /\ \A j \in 1..Len(object_iterations) :
                  /\ object_iterations[j] = hist.snapshots[j].object
                  /\ probe_iterations[j] = hist.snapshots[j].probe

\* C28: for reset True, False and None, on a new instance and on one that has
\* run before, the exit-wave cache is None or an array from the end of the
\* initialization on, so the forward operator of the first batch never finds
\* the attribute missing.
C28_ExitWaveCacheDefinedAtFirstBatch ==
    /\ (hist.active /\ pc \in {"loop", "batch"}) => _exit_waves.state \in {"None", "array"}
    /\ pc = "raised" => frame.exc # "AttributeError"

\* C29: the previous exit waves a DM_AP or RAAR step consumes are None (and
\* replaced by the overlap) or the exit waves an earlier projection step
\* produced for the same N measurements in the same order: never the
\* difference array of a gradient-descent step or the array of another batch
\* that an earlier call left in the cache.
C29_ProjectionConsumesProjectionExitWaves ==
    (pc = "batch" /\ frame.batches # <<>> /\ frame.use_projection_scheme)
      => \/ _exit_waves.state = "None"
         \/ /\ _exit_waves.state = "array"
            /\ hist.cache.projection
            /\ hist.cache.indices
                   = AsArray([j \in 1..(Head(frame.batches)[2] - Head(frame.batches)[1]) |->
                                frame.shuffled_indices[Head(frame.batches)[1] + j]])

\* the short name of the projection family the running call does not use
OtherFamily == IF frame.args.reconstruction_method \in DifferenceMapNames THEN "RAAR" ELSE "DM_AP"

\* the object, probe, error and exit waves after the iterations completed so
\* far, had the call named the other projection family, from the state its
\* first batch found
RerunWithOtherFamily ==
    With(method_lookup(OtherFamily, frame.args.reconstruction_parameter,
                       frame.args.step_size),
         LAMBDA lk :
         FreshIterations(
             [object |-> hist.first[1].object, probe |-> hist.first[1].probe,
              exit_waves |-> hist.first[1].exit_waves,
              probe_support_mask |-> _probe_support_mask],
             [frame EXCEPT !.args.max_iter = hist.iterations,
                           !.projection_a = lk.projection_a,
                           !.projection_b = lk.projection_b,
                           !.projection_c = lk.projection_c,
                           !.error = [bound |-> FALSE, v |-> Zero]],
             ReadOnly, 0))

\* C30: at reconstruction_parameter 1, the default, DM_AP and RAAR both run
\* with (a, b, c) = (-1, 1, 2) and from the same state leave the same exit
\* waves, object, probe and error after every iteration; at every other
\* reconstruction_parameter in [0, 1) their triples differ.
C30_FamiliesCoincideAtOne ==
    (hist.active /\ pc \in {"loop", "returned"} /\ hist.iterations >= 1
        /\ frame.use_projection_scheme)
      => \E lk \in {method_lookup(OtherFamily, frame.args.reconstruction_parameter,
                                   frame.args.step_size)} :
            IF frame.args.reconstruction_parameter = One
            THEN /\ <<frame.projection_a, frame.projection_b, frame.projection_c>>
                        = <<FromInt(-1), One, FromInt(2)>>
                 /\ <<lk.projection_a, lk.projection_b, lk.projection_c>>
                        = <<FromInt(-1), One, FromInt(2)>>
                 /\ \E r \in {RerunWithOtherFamily} :
                        /\ _object = r.object
                        /\ _probe = r.probe
                        /\ frame.error.v = r.error
                        /\ _exit_waves = r.exit_waves
            ELSE <<lk.projection_a, lk.projection_b, lk.projection_c>>
                     # <<frame.projection_a, frame.projection_b, frame.projection_c>>

\* a DM_AP call at reconstruction_parameter 1 has returned after two
\* iterations that moved the object, and RAAR gives the same object and exit
\* waves
C30_Witness ==
    /\ hist.active
    /\ pc = "returned"
    /\ frame.args.reconstruction_method = "DM_AP"
    /\ frame.args.reconstruction_parameter = One
    /\ hist.iterations = 2
    /\ object # _object_initial
    /\ _exit_waves.state = "array"
    /\ object = RerunWithOtherFamily.object
    /\ _exit_waves = RerunWithOtherFamily.exit_waves

=============================================================================
